---- MODULE Spec2Model ----
(***************************************************************************)
(* Model of github.com/elum-utils/censor: the trigger engine               *)
(* (package engine), the negative-result cache, the event bus and the      *)
(* moderation pipeline (package core).                                     *)
(*                                                                         *)
(* Strings that the code inspects byte by byte (message data, tokens) are  *)
(* sequences of one-character strings; reasons are TLA+ strings, of which  *)
(* the code only takes the length.  Confidence is in percent.              *)
(***************************************************************************)
EXTENDS Integers, Sequences, FiniteSets, TLC, Bags

VARIABLES
    cfg,        \* Options given to New: which collaborators are configured
    engine,     \* engine.Engine.state: [tokens, phrases]
    cache,      \* negativeResultCache: [items, lru, totalBytes]
    events,     \* Core.events: event name -> sequence of handlers
    processed,  \* Core.processed: metric counter per status code
    storage,    \* the tokens the Storage collaborator holds
    pending,    \* persistence goroutines spawned by learn, not yet run (bag of tokens)
    now,        \* the clock read by time.Now()
    calls,      \* number of pipeline calls made so far
    last,       \* observation of the pipeline call that has just returned (history)
    prev,       \* summary of the pipeline call before it (history)
    mu,         \* Engine.mu and Core.eventsMu: [readers, writer] of each RWMutex
    tasks       \* the goroutines in the middle of an operation: id -> locals

vars == <<cfg, engine, cache, events, processed, storage, pending,
          now, calls, last, prev, mu, tasks>>

----------------------------------------------------------------------------
(* Bounds of the model and configuration of the Core under study.          *)

MaxCalls == 2            \* pipeline calls per behaviour
MaxBatch == 2            \* messages per ProcessBatch call
MaxResults == 2          \* results in one AnalyzeBatch answer
MaxTime == 2             \* clock ticks
MaxHandlers == 2         \* handlers subscribed in all
maxMessageSize == 3      \* Options.MaxMessageSize
maxLearnTokenLength == 3 \* Options.MaxLearnTokenLength
negativeCacheTTL == 1    \* Options.CacheTTL, in ticks
cacheMaxBytes == 160     \* Options.CacheMaxBytes
confidenceThreshold == 70 \* defaultConfidenceThreshold, in percent
EntryOverheadBytes == 128 \* estimateEntrySizeBytes: scalar/object overhead

----------------------------------------------------------------------------
(* Generic helpers.                                                        *)

Range(s) == {s[i] : i \in DOMAIN s}

\* All orderings of a finite set, as sequences without repetition.
RECURSIVE Orderings(_)
Orderings(S) ==
    IF S = {} THEN {<<>>}
    ELSE UNION {{<<x>> \o rest : rest \in Orderings(S \ {x})} : x \in S}

\* Sequences over S of length at most n.
SeqsUpTo(S, n) == UNION {[1..k -> S] : k \in 0..n}

----------------------------------------------------------------------------
(* Strings: strings.ToLower, strings.TrimSpace, strings.Contains and the   *)
(* unicode classes used by splitTokens, over the characters of the model.  *)

ToLowerChar(c) ==
    CASE c = "A" -> "a"
      [] c = "B" -> "b"
      [] c = "D" -> "d"
      [] c = "H" -> "h"
      [] c = "I" -> "i"
      [] OTHER -> c

ToLower(s) == [i \in DOMAIN s |-> ToLowerChar(s[i])]

IsSpace(c) == c \in {" ", "\t", "\n"}

RECURSIVE TrimLeft(_)
TrimLeft(s) ==
    IF s # <<>> /\ IsSpace(Head(s)) THEN TrimLeft(Tail(s)) ELSE s

RECURSIVE TrimRight(_)
TrimRight(s) ==
    IF s # <<>> /\ IsSpace(s[Len(s)]) THEN TrimRight(SubSeq(s, 1, Len(s) - 1)) ELSE s

TrimSpace(s) == TrimRight(TrimLeft(s))

\* strings.Contains(s, sub)
Contains(s, sub) ==
    \E i \in 0..(Len(s) - Len(sub)) : SubSeq(s, i + 1, i + Len(sub)) = sub

\* strings.ContainsRune(t, ' ')
ContainsSpaceRune(t) == \E i \in DOMAIN t : t[i] = " "

\* unicode.IsLetter(r) || unicode.IsDigit(r) || r == '_'
IsWordRune(c) ==
    c \in {"a", "b", "d", "h", "i", "x", "n", "o", "w",
           "A", "B", "D", "H", "I", "0", "1", "_"}

----------------------------------------------------------------------------
(* Trigger engine (engine/engine.go).                                      *)

normalizeToken(token) == ToLower(TrimSpace(token))

EngineNew == [tokens |-> {}, phrases |-> <<>>]

\* An AddToken that stores a phrase without listing it among the phrases.
AddTokenUnlisted(st, token) ==
    LET t == normalizeToken(token) IN
    IF t = <<>> THEN [state |-> st, ok |-> FALSE]
    ELSE IF t \in st.tokens THEN [state |-> st, ok |-> FALSE]
    ELSE [state |-> [tokens |-> st.tokens \cup {t}, phrases |-> st.phrases],
          ok |-> TRUE]

\* Engine.AddToken: the new state and the returned bool.
AddToken(st, token) ==
    LET t == normalizeToken(token) IN
    IF t = <<>> THEN [state |-> st, ok |-> FALSE]
    ELSE IF t \in st.tokens THEN [state |-> st, ok |-> FALSE]
    ELSE [state |-> [tokens  |-> st.tokens \cup {t},
                     phrases |-> IF ContainsSpaceRune(t)
                                 THEN Append(st.phrases, t)
                                 ELSE st.phrases],
          ok |-> TRUE]

\* The loop of Engine.RemoveToken over the phrases: those that differ from t,
\* in their order.
RECURSIVE withoutPhrase(_, _)
withoutPhrase(phrases, t) ==
    IF phrases = <<>> THEN <<>>
    ELSE IF Head(phrases) # t
         THEN <<Head(phrases)>> \o withoutPhrase(Tail(phrases), t)
         ELSE withoutPhrase(Tail(phrases), t)

\* A RemoveToken that deletes the token and leaves the phrase list alone.
RemoveTokenKeepingPhrase(st, token) ==
    LET t == normalizeToken(token) IN
    IF t = <<>> THEN [state |-> st, ok |-> FALSE]
    ELSE IF t \notin st.tokens THEN [state |-> st, ok |-> FALSE]
    ELSE [state |-> [tokens |-> st.tokens \ {t}, phrases |-> st.phrases],
          ok |-> TRUE]

\* Engine.RemoveToken: the new state and the returned bool.
RemoveToken(st, token) ==
    LET t == normalizeToken(token) IN
    IF t = <<>> THEN [state |-> st, ok |-> FALSE]
    ELSE IF t \notin st.tokens THEN [state |-> st, ok |-> FALSE]
    ELSE [state |-> [tokens  |-> st.tokens \ {t},
                     phrases |-> IF ContainsSpaceRune(t)
                                 THEN withoutPhrase(st.phrases, t)
                                 ELSE st.phrases],
          ok |-> TRUE]

\* Engine.Clear: the state it swaps in.
Clear == [tokens |-> {}, phrases |-> <<>>]

\* Engine.ReplaceAll: the state built from the list, swapped in whole.
RECURSIVE ReplaceAllFrom(_, _)
ReplaceAllFrom(next, list) ==
    IF list = <<>> THEN next
    ELSE LET t == normalizeToken(Head(list)) IN
         IF t = <<>> \/ t \in next.tokens
         THEN ReplaceAllFrom(next, Tail(list))
         ELSE ReplaceAllFrom(
                [tokens  |-> next.tokens \cup {t},
                 phrases |-> IF ContainsSpaceRune(t)
                             THEN Append(next.phrases, t)
                             ELSE next.phrases],
                Tail(list))

ReplaceAll(list) == ReplaceAllFrom(EngineNew, list)

\* Engine.Count
Count(st) == Cardinality(st.tokens)

\* splitTokens: the maximal runs of letters, digits and underscore.
RECURSIVE splitTokensFrom(_, _, _)
splitTokensFrom(s, i, start) ==
    IF i > Len(s)
    THEN IF start # 0 THEN <<SubSeq(s, start, Len(s))>> ELSE <<>>
    ELSE IF IsWordRune(s[i])
         THEN splitTokensFrom(s, i + 1, IF start = 0 THEN i ELSE start)
         ELSE IF start # 0
              THEN <<SubSeq(s, start, i - 1)>> \o splitTokensFrom(s, i + 1, 0)
              ELSE splitTokensFrom(s, i + 1, 0)

splitTokens(s) == splitTokensFrom(s, 1, 0)

\* A FindTriggers that looks for every token as a substring of the message.
FindTriggersBySubstring(st, message) ==
    LET lower == ToLower(message) IN
    IF st.tokens = {} \/ lower = <<>> THEN {}
    ELSE {t \in st.tokens : Contains(lower, t)}

\* Engine.FindTriggers: the set `found`; the returned slice is one of its
\* orderings (Go map iteration order).
FindTriggers(st, message) ==
    LET lower == ToLower(message) IN
    IF st.tokens = {} \/ lower = <<>> THEN {}
    ELSE LET words == {w \in Range(splitTokens(lower)) : w \in st.tokens}
             phr   == {p \in Range(st.phrases) :
                          p \notin words /\ Contains(lower, p)}
         IN  words \cup phr

----------------------------------------------------------------------------
(* Data model (models/message.go).                                         *)

StatusClean == 1
StatusNonCriticalAbuse == 2
StatusHumanReview == 3
StatusSuspicious == 4
StatusCommercialOffPlatform == 5
StatusDangerousIllegal == 6
StatusCritical == StatusDangerousIllegal

\* StatusCode.Valid
Valid(s) == s >= StatusClean /\ s <= StatusCritical

\* The zero value models.AIResult{}.
ZeroAIResult ==
    [StatusCode |-> 0, Reason |-> "", Confidence |-> 0, TriggerTokens |-> <<>>,
     ViolatorUserID |-> 0, MessageID |-> 0]

----------------------------------------------------------------------------
(* Negative-result cache.  lru[1] is the front (most recently used) of the *)
(* list, lru[Len(lru)] its back; items is the key set of the map.          *)

RECURSIVE SumLen(_)
SumLen(tokens) ==
    IF tokens = <<>> THEN 0 ELSE Len(Head(tokens)) + SumLen(Tail(tokens))

estimateEntrySizeBytes(key, value) ==
    Len(key) + Len(value.Reason) + SumLen(value.TriggerTokens) + EntryOverheadBytes

\* newNegativeResultCache(cacheMaxBytes)
newNegativeResultCache ==
    [maxBytes |-> cacheMaxBytes, items |-> {}, lru |-> <<>>, totalBytes |-> 0]

\* Position in the list of the element the map holds for key.
ElemOf(c, key) == CHOOSE i \in DOMAIN c.lru : c.lru[i].key = key

RemoveAt(s, i) == SubSeq(s, 1, i - 1) \o SubSeq(s, i + 1, Len(s))

\* list.MoveToFront
MoveToFront(s, i) == <<s[i]>> \o RemoveAt(s, i)

\* A removal that forgets to give back the bytes of the entry.
removeElementKeepingBytes(c, i) ==
    [maxBytes   |-> c.maxBytes,
     items      |-> c.items \ {c.lru[i].key},
     lru        |-> RemoveAt(c.lru, i),
     totalBytes |-> c.totalBytes]

\* negativeResultCache.removeElement, for the element at position i.
removeElement(c, i) ==
    LET entry == c.lru[i]
        total == c.totalBytes - entry.sizeBytes
    IN  [maxBytes   |-> c.maxBytes,
         items      |-> c.items \ {entry.key},
         lru        |-> RemoveAt(c.lru, i),
         totalBytes |-> IF total < 0 THEN 0 ELSE total]

\* An eviction that takes the entries from the front of the list.
RECURSIVE evictFromFront(_)
evictFromFront(c) ==
    IF c.totalBytes > c.maxBytes /\ Len(c.lru) > 0
    THEN evictFromFront(removeElement(c, 1))
    ELSE c

\* negativeResultCache.evictToFitLocked
RECURSIVE evictToFitLocked(_)
evictToFitLocked(c) ==
    IF c.totalBytes > c.maxBytes /\ Len(c.lru) > 0
    THEN evictToFitLocked(removeElement(c, Len(c.lru)))
    ELSE c

\* A Get for which an entry is already gone at the instant it expires.
CacheGetStrict(c, key, t) ==
    IF key = <<>> \/ key \notin c.items
    THEN [cache |-> c, value |-> ZeroAIResult, ok |-> FALSE]
    ELSE LET i == ElemOf(c, key) IN
         IF t >= c.lru[i].expiresAt
         THEN [cache |-> removeElement(c, i), value |-> ZeroAIResult, ok |-> FALSE]
         ELSE [cache |-> [c EXCEPT !.lru = MoveToFront(c.lru, i)],
               value |-> c.lru[i].value, ok |-> TRUE]

\* A Get that does not look at the expiry of the entry.
CacheGetIgnoringExpiry(c, key, t) ==
    IF key = <<>> \/ key \notin c.items
    THEN [cache |-> c, value |-> ZeroAIResult, ok |-> FALSE]
    ELSE LET i == ElemOf(c, key) IN
         [cache |-> [c EXCEPT !.lru = MoveToFront(c.lru, i)],
          value |-> c.lru[i].value, ok |-> TRUE]

\* negativeResultCache.Get: the cache afterwards, the value and ok.
CacheGet(c, key, t) ==
    IF key = <<>> \/ key \notin c.items
    THEN [cache |-> c, value |-> ZeroAIResult, ok |-> FALSE]
    ELSE LET i == ElemOf(c, key) IN
         IF t > c.lru[i].expiresAt
         THEN [cache |-> removeElement(c, i), value |-> ZeroAIResult, ok |-> FALSE]
         ELSE [cache |-> [c EXCEPT !.lru = MoveToFront(c.lru, i)],
               value |-> c.lru[i].value, ok |-> TRUE]

\* A Set that drops the entry of the key when the new one is too large.
CacheSetDroppingOversized(c, key, value, ttl, t) ==
    IF key = <<>> \/ ttl <= 0 THEN c
    ELSE LET entry == [key |-> key, value |-> value, expiresAt |-> t + ttl,
                       sizeBytes |-> estimateEntrySizeBytes(key, value)]
         IN  IF entry.sizeBytes > c.maxBytes
             THEN IF key \in c.items THEN removeElement(c, ElemOf(c, key)) ELSE c
             ELSE IF key \in c.items
             THEN LET i == ElemOf(c, key) IN
                  evictToFitLocked(
                    [maxBytes   |-> c.maxBytes,
                     items      |-> c.items,
                     lru        |-> <<entry>> \o RemoveAt(c.lru, i),
                     totalBytes |-> c.totalBytes - c.lru[i].sizeBytes + entry.sizeBytes])
             ELSE evictToFitLocked(
                    [maxBytes   |-> c.maxBytes,
                     items      |-> c.items \cup {key},
                     lru        |-> <<entry>> \o c.lru,
                     totalBytes |-> c.totalBytes + entry.sizeBytes])

\* A Set that leaves the entry of a key that is present where it is in the
\* list.
CacheSetInPlace(c, key, value, ttl, t) ==
    IF key = <<>> \/ ttl <= 0 \/ estimateEntrySizeBytes(key, value) > c.maxBytes THEN c
    ELSE LET entry == [key |-> key, value |-> value, expiresAt |-> t + ttl,
                       sizeBytes |-> estimateEntrySizeBytes(key, value)]
         IN  IF key \in c.items
             THEN LET i == ElemOf(c, key) IN
                  evictToFitLocked(
                    [maxBytes   |-> c.maxBytes,
                     items      |-> c.items,
                     lru        |-> [c.lru EXCEPT ![i] = entry],
                     totalBytes |-> c.totalBytes - c.lru[i].sizeBytes + entry.sizeBytes])
             ELSE evictToFitLocked(
                    [maxBytes   |-> c.maxBytes,
                     items      |-> c.items \cup {key},
                     lru        |-> <<entry>> \o c.lru,
                     totalBytes |-> c.totalBytes + entry.sizeBytes])

\* negativeResultCache.Set
CacheSet(c, key, value, ttl, t) ==
    IF key = <<>> \/ ttl <= 0 THEN c
    ELSE LET expiresAt == t + ttl
             newSize   == estimateEntrySizeBytes(key, value)
             entry     == [key |-> key, value |-> value,
                           expiresAt |-> expiresAt, sizeBytes |-> newSize]
         IN  IF newSize > c.maxBytes THEN c
             ELSE IF key \in c.items
             THEN LET i == ElemOf(c, key) IN
                  evictToFitLocked(
                    [maxBytes   |-> c.maxBytes,
                     items      |-> c.items,
                     lru        |-> <<entry>> \o RemoveAt(c.lru, i),
                     totalBytes |-> c.totalBytes - c.lru[i].sizeBytes + newSize])
             ELSE evictToFitLocked(
                    [maxBytes   |-> c.maxBytes,
                     items      |-> c.items \cup {key},
                     lru        |-> <<entry>> \o c.lru,
                     totalBytes |-> c.totalBytes + newSize])

\* negativeResultCache.RemoveExpired: walk from the back to the front.
RECURSIVE RemoveExpiredFrom(_, _, _)
RemoveExpiredFrom(c, i, t) ==
    IF i = 0 THEN c
    ELSE IF t > c.lru[i].expiresAt
         THEN RemoveExpiredFrom(removeElement(c, i), i - 1, t)
         ELSE RemoveExpiredFrom(c, i - 1, t)

\* A sweep that walks from the back and stops at the first entry that has
\* not expired.
RECURSIVE RemoveExpiredAtTheBack(_, _)
RemoveExpiredAtTheBack(c, t) ==
    IF c.lru = <<>> \/ ~(t > c.lru[Len(c.lru)].expiresAt) THEN c
    ELSE RemoveExpiredAtTheBack(removeElement(c, Len(c.lru)), t)

RemoveExpired(c, t) == RemoveExpiredFrom(c, Len(c.lru), t)

----------------------------------------------------------------------------
(* Event bus and callback router.  A dispatch is observed as a trace of    *)
(* invocations [kind, name, handler, arg].                                 *)

EventAllowClean == "allow_clean"
EventMarkAbuse == "mark_abuse"
EventHumanReview == "human_review"
EventAutoRestrict == "auto_restrict"
EventAutoBanEscalate == "auto_ban_escalate"
EventCriticalEscalate == "critical_escalate"

EventNames ==
    {EventAllowClean, EventMarkAbuse, EventHumanReview, EventAutoRestrict,
     EventAutoBanEscalate, EventCriticalEscalate}

\* eventNameFromCode: the switch, its cases tried in source order.
eventNameFromCode(code) ==
    IF code = StatusClean THEN EventAllowClean
    ELSE IF code = StatusNonCriticalAbuse THEN EventMarkAbuse
    ELSE IF code = StatusSuspicious THEN EventHumanReview
    ELSE IF code = StatusCommercialOffPlatform THEN EventAutoRestrict
    ELSE IF code = StatusDangerousIllegal THEN EventAutoBanEscalate
    ELSE IF code = StatusCritical THEN EventCriticalEscalate
    ELSE EventHumanReview

\* The method of the callback surface selected by the switch of
\* dispatchByStatus, its cases tried in source order; "" when no case matches.
callbackFromCode(code) ==
    IF code = StatusClean THEN "OnClean"
    ELSE IF code = StatusNonCriticalAbuse THEN "OnNonCriticalAbuse"
    ELSE IF code = StatusSuspicious THEN "OnSuspicious"
    ELSE IF code = StatusCommercialOffPlatform THEN "OnCommercialOffPlatform"
    ELSE IF code = StatusDangerousIllegal THEN "OnDangerousIllegal"
    ELSE IF code = StatusCritical THEN "OnCritical"
    ELSE ""

toViolation(e) ==
    [Message   |-> [ID |-> e.MessageID, DialogID |-> e.DialogID,
                    User |-> e.ViolatorUserID, Data |-> <<>>],
     AIResult  |-> [StatusCode |-> e.StatusCode, Reason |-> e.Reason,
                    Confidence |-> e.Confidence, TriggerTokens |-> e.TriggerTokens,
                    ViolatorUserID |-> e.ViolatorUserID, MessageID |-> e.MessageID],
     Triggered |-> e.TriggeredByRule]

\* The subscribed handlers that return an error.
FailingHandlers == {"h2"}

\* One call of a callback or of a handler, with whether it returned an error
\* (which dispatchByStatus and dispatchEvent pass to logWarn).
Invocation(kind, name, handler, arg) ==
    [kind |-> kind, name |-> name, handler |-> handler, arg |-> arg,
     err  |-> IF kind = "handler" THEN handler \in FailingHandlers ELSE cfg.cbErr]

\* Core.dispatchByStatus
dispatchByStatus(e) ==
    LET name == callbackFromCode(e.StatusCode) IN
    (IF name = "" THEN <<>> ELSE <<Invocation("callback", name, "", toViolation(e))>>)
    \o (IF cfg.allCb
        THEN <<Invocation("processed", "OnProcessed", "", toViolation(e))>>
        ELSE <<>>)

\* Core.dispatchEvent: every handler of the snapshot, in order.
dispatchEvent(e) ==
    LET event    == eventNameFromCode(e.StatusCode)
        handlers == events[event]
    IN  [i \in DOMAIN handlers |-> Invocation("handler", event, handlers[i], e)]

\* A record that puts its dispatches in front of the earlier ones.
recordInFront(cs, v) ==
    LET code == IF Valid(v.AIResult.StatusCode)
                THEN v.AIResult.StatusCode ELSE StatusSuspicious
        e == [DialogID        |-> v.Message.DialogID,
              MessageID       |-> v.Message.ID,
              ViolatorUserID  |-> v.AIResult.ViolatorUserID,
              Reason          |-> v.AIResult.Reason,
              Confidence      |-> v.AIResult.Confidence,
              TriggerTokens   |-> v.AIResult.TriggerTokens,
              StatusCode      |-> code,
              TriggeredByRule |-> v.Triggered]
    IN  [cs EXCEPT !.processed[code] = @ + 1,
                   !.trace = dispatchByStatus(e) \o dispatchEvent(e) \o @]

\* Core.record, on the part of the Core a pipeline call changes:
\* cs = [cache, engine, processed, pending, trace].
record(cs, v) ==
    LET code == IF Valid(v.AIResult.StatusCode)
                THEN v.AIResult.StatusCode ELSE StatusSuspicious
        e == [DialogID        |-> v.Message.DialogID,
              MessageID       |-> v.Message.ID,
              ViolatorUserID  |-> v.AIResult.ViolatorUserID,
              Reason          |-> v.AIResult.Reason,
              Confidence      |-> v.AIResult.Confidence,
              TriggerTokens   |-> v.AIResult.TriggerTokens,
              StatusCode      |-> code,
              TriggeredByRule |-> v.Triggered]
    IN  [cs EXCEPT !.processed[code] = @ + 1,
                   !.trace = @ \o dispatchByStatus(e) \o dispatchEvent(e)]

----------------------------------------------------------------------------
(* Pipeline (Core.ProcessBatchWithOptions and what it calls).              *)

Violation(msg, triggered, result) ==
    [Message |-> msg, AIResult |-> result, Triggered |-> triggered]

\* The zero value models.Violation{} of an unfilled slot of `out`.
ZeroViolation ==
    Violation([ID |-> 0, DialogID |-> "", User |-> 0, Data |-> <<>>], FALSE, ZeroAIResult)

\* prepared.Data = prepared.Data[:c.maxMessageSize]
Truncate(data) ==
    IF Len(data) > maxMessageSize THEN SubSeq(data, 1, maxMessageSize) ELSE data

\* The slice FindTriggers returns for the set it found, in the order ord.
OrderBy(found, ord) == SelectSeq(ord, LAMBDA t : t \in found)

\* Core.validate: "" when the configuration is usable.
validate ==
    IF ~cfg.ai THEN "core: AI analyzer is nil"
    ELSE IF ~cfg.storage THEN "core: storage is nil"
    ELSE IF maxMessageSize <= 0 THEN "core: invalid max message size"
    ELSE ""

\* A lookup that returns the cached result with the ids it was stored with.
getCachedNegativeStale(cs, key, message, t) ==
    LET g == CacheGet(cs.cache, key, t) IN
    [cs |-> [cs EXCEPT !.cache = g.cache], res |-> g.value, ok |-> g.ok]

\* Core.getCachedNegative
getCachedNegative(cs, key, message, t) ==
    LET g == CacheGet(cs.cache, key, t) IN
    IF ~g.ok
    THEN [cs |-> [cs EXCEPT !.cache = g.cache], res |-> ZeroAIResult, ok |-> FALSE]
    ELSE [cs  |-> [cs EXCEPT !.cache = g.cache],
          res |-> [g.value EXCEPT !.MessageID = message.ID,
                                  !.ViolatorUserID = message.User],
          ok  |-> TRUE]

\* Core.setCachedNegative
setCachedNegative(cs, key, result, t) ==
    IF key = <<>> THEN cs
    ELSE IF ~Valid(result.StatusCode) THEN cs
    ELSE [cs EXCEPT !.cache = CacheSet(cs.cache, key, result, negativeCacheTTL, t)]

\* A learn loop that gives up the result at its first over-long token.
RECURSIVE learnFromUntilTooLong(_, _)
learnFromUntilTooLong(cs, tokens) ==
    IF tokens = <<>> THEN cs
    ELSE LET normalized == ToLower(TrimSpace(Head(tokens))) IN
         IF normalized = <<>> THEN learnFromUntilTooLong(cs, Tail(tokens))
         ELSE IF Len(normalized) > maxLearnTokenLength THEN cs
         ELSE LET a == AddToken(cs.engine, normalized) IN
              IF ~a.ok THEN learnFromUntilTooLong(cs, Tail(tokens))
              ELSE learnFromUntilTooLong([cs EXCEPT !.engine = a.state,
                                                    !.pending = @ (+) SetToBag({normalized})],
                                         Tail(tokens))

\* The loop of Core.learn over result.TriggerTokens.
RECURSIVE learnFrom(_, _)
learnFrom(cs, tokens) ==
    IF tokens = <<>> THEN cs
    ELSE LET normalized == ToLower(TrimSpace(Head(tokens))) IN
         IF normalized = <<>> THEN learnFrom(cs, Tail(tokens))
         ELSE IF Len(normalized) > maxLearnTokenLength THEN learnFrom(cs, Tail(tokens))
         ELSE LET a == AddToken(cs.engine, normalized) IN
              IF ~a.ok THEN learnFrom(cs, Tail(tokens))
              ELSE learnFrom([cs EXCEPT !.engine = a.state,
                                        !.pending = @ (+) SetToBag({normalized})],
                             Tail(tokens))

\* Core.learn
learn(cs, result) ==
    IF ~cfg.autoLearn \/ ~cfg.storage THEN cs
    ELSE IF result.Confidence < confidenceThreshold THEN cs
    ELSE learnFrom(cs, result.TriggerTokens)

\* A no-trigger decision that is left for review instead of being allowed.
NoTriggerResultForReview(prepared) ==
    [StatusCode |-> StatusHumanReview, Reason |-> "no trigger", Confidence |-> 100,
     TriggerTokens |-> <<>>, ViolatorUserID |-> prepared.User,
     MessageID |-> prepared.ID]

\* The decision synthesized for a message without trigger.
NoTriggerResult(prepared) ==
    [StatusCode |-> StatusClean, Reason |-> "no trigger", Confidence |-> 100,
     TriggerTokens |-> <<>>, ViolatorUserID |-> prepared.User,
     MessageID |-> prepared.ID]

\* A queue entry that passes the payload off as a local trigger.
SkipQueueEntryWithData(i, prepared) ==
    [index |-> i, message |-> prepared, triggers |-> <<prepared.Data>>]

\* pendingAnalyze of a message queued with the trigger filter skipped.
SkipQueueEntry(i, prepared) ==
    [index |-> i, message |-> prepared, triggers |-> <<>>]

\* A fallback that asks for human review.
MissingResultForReview(p) ==
    [StatusCode |-> StatusHumanReview, Reason |-> "missing AI result",
     Confidence |-> 0, TriggerTokens |-> p.triggers,
     ViolatorUserID |-> p.message.User, MessageID |-> p.message.ID]

\* The fallback for a queued message p without result under its id.
MissingResult(p) ==
    [StatusCode |-> StatusSuspicious, Reason |-> "missing AI result",
     Confidence |-> 0, TriggerTokens |-> p.triggers,
     ViolatorUserID |-> p.message.User, MessageID |-> p.message.ID]

\* The preparation loop of ProcessBatchWithOptions, from message i on.
\* acc = [cs, out, filled, toAnalyze, lookedUp, triggers, gets, hits, raw, missing].
RECURSIVE PrepareFrom(_, _, _, _, _, _)
PrepareFrom(messages, skip, ord, t, i, acc) ==
    IF i > Len(messages) THEN acc
    ELSE
    LET msg      == messages[i]
        prepared == [msg EXCEPT !.Data = Truncate(msg.Data)]
        cacheKey == prepared.Data
        g        == getCachedNegative(acc.cs, cacheKey, prepared, t)
        found    == FindTriggers(acc.cs.engine, prepared.Data)
        triggers == OrderBy(found, ord)
        Emit(a, v) == [a EXCEPT !.cs = record(@, v), !.out[i] = v, !.filled[i] = TRUE]
        Looked(a) == [a EXCEPT !.lookedUp = @ \cup {i}, !.triggers[i] = triggers]
        Got(a)    == [a EXCEPT !.cs = g.cs, !.gets = @ \cup {i},
                               !.hits = IF g.ok THEN @ \cup {i} ELSE @]
        Queue(a, p) == [a EXCEPT !.toAnalyze = Append(@, p)]
    IN
    IF skip
    THEN IF g.ok
         THEN PrepareFrom(messages, skip, ord, t, i + 1,
                          Emit(Got(acc), Violation(prepared, FALSE, g.res)))
         ELSE PrepareFrom(messages, skip, ord, t, i + 1, Queue(Got(acc), SkipQueueEntry(i, prepared)))
    ELSE IF Len(triggers) = 0
    THEN PrepareFrom(messages, skip, ord, t, i + 1,
            Emit(Looked(acc), Violation(prepared, FALSE, NoTriggerResult(prepared))))
    ELSE IF g.ok
    THEN LET cached == IF Len(g.res.TriggerTokens) = 0
                       THEN [g.res EXCEPT !.TriggerTokens = triggers] ELSE g.res
         IN  PrepareFrom(messages, skip, ord, t, i + 1,
                         Emit(Got(Looked(acc)), Violation(prepared, TRUE, cached)))
    ELSE PrepareFrom(messages, skip, ord, t, i + 1, Queue(Got(Looked(acc)),
                           [index |-> i, message |-> prepared, triggers |-> triggers]))

\* Core.analyze without batching: one Analyze per message, until one fails.
\* answers[k] = [err, res] is what Analyze returns for messages[k].
RECURSIVE analyzeEach(_, _, _, _)
analyzeEach(messages, answers, k, a) ==
    IF k > Len(messages) THEN a
    ELSE LET message == messages[k]
             sent    == Append(a.sent, <<message>>)
         IN  IF answers[k].err
             THEN [err |-> TRUE, results |-> <<>>, sent |-> sent]
             ELSE LET res == answers[k].res
                      r1  == IF res.MessageID = 0
                             THEN [res EXCEPT !.MessageID = message.ID] ELSE res
                      r2  == IF r1.ViolatorUserID = 0
                             THEN [r1 EXCEPT !.ViolatorUserID = message.User] ELSE r1
                  IN  analyzeEach(messages, answers, k + 1,
                        [err |-> FALSE, results |-> Append(a.results, r2), sent |-> sent])

\* An analyze that splits the queue into one call per message although the
\* analyzer supports batching.
analyzeOneByOne(messages, resp) ==
    IF cfg.batch
    THEN [err     |-> resp.err,
          results |-> IF resp.err THEN <<>> ELSE resp.results,
          sent    |-> [k \in DOMAIN messages |-> <<messages[k]>>]]
    ELSE analyzeEach(messages, resp.answers, 1,
                     [err |-> FALSE, results |-> <<>>, sent |-> <<>>])

\* Core.analyze: resp is what the analyzer answers, [err, results] for
\* AnalyzeBatch and [answers] for the Analyze calls.
analyze(messages, resp) ==
    IF cfg.batch
    THEN [err     |-> resp.err,
          results |-> IF resp.err THEN <<>> ELSE resp.results,
          sent    |-> <<messages>>]
    ELSE analyzeEach(messages, resp.answers, 1,
                     [err |-> FALSE, results |-> <<>>, sent |-> <<>>])

\* byID[r.MessageID] = r for every result in order: the last one wins.
ByID(results) ==
    [id \in {results[j].MessageID : j \in DOMAIN results} |->
        LET js == {j \in DOMAIN results : results[j].MessageID = id}
        IN  results[CHOOSE j \in js : \A j2 \in js : j2 <= j]]

\* The merge loop of ProcessBatchWithOptions, from queue position k on.
RECURSIVE MergeFrom(_, _, _, _, _)
MergeFrom(toAnalyze, byID, t, k, acc) ==
    IF k > Len(toAnalyze) THEN acc
    ELSE
    LET p   == toAnalyze[k]
        msg == p.message
        ok  == msg.ID \in DOMAIN byID
        r0  == IF ok THEN byID[msg.ID] ELSE MissingResult(p)
        r1  == IF r0.ViolatorUserID = 0 THEN [r0 EXCEPT !.ViolatorUserID = msg.User] ELSE r0
        r2  == IF r1.MessageID = 0 THEN [r1 EXCEPT !.MessageID = msg.ID] ELSE r1
        r   == IF Len(r2.TriggerTokens) = 0 THEN [r2 EXCEPT !.TriggerTokens = p.triggers] ELSE r2
        v   == Violation(msg, Len(p.triggers) > 0, r)
        cs1 == setCachedNegative(acc.cs, msg.Data, r, t)
        cs2 == learn(cs1, r)
        cs3 == record(cs2, v)
    IN  MergeFrom(toAnalyze, byID, t, k + 1,
            [acc EXCEPT !.cs = cs3, !.out[p.index] = v, !.filled[p.index] = TRUE,
                        !.raw = IF ok THEN Append(@, [index |-> p.index, res |-> byID[msg.ID]])
                                ELSE @,
                        !.missing = IF ok THEN @ ELSE @ \cup {p.index}])

\* What a pipeline call is observed to do: its arguments, what it returned,
\* which collaborators it consulted for which input index, its dispatches,
\* and the trigger engine as it was when the call started.
NoCall ==
    [called |-> FALSE, messages |-> <<>>, skip |-> FALSE, err |-> "", out |-> <<>>,
     at |-> 0, queued |-> <<>>, sent |-> <<>>, ids |-> {}, lookedUp |-> {}, triggers |-> <<>>,
     gets |-> {}, hits |-> {}, raw |-> <<>>, missing |-> {}, trace |-> <<>>,
     engine |-> EngineNew]

\* Core.ProcessBatchWithOptions after validation, for a non-empty batch:
\* the preparation pass.
Prepare(messages, skip, ord, t) ==
    PrepareFrom(messages, skip, ord, t, 1,
        [cs        |-> [cache |-> cache, engine |-> engine, processed |-> processed,
                        pending |-> pending, trace |-> <<>>],
         out       |-> [i \in DOMAIN messages |-> ZeroViolation],
         filled    |-> [i \in DOMAIN messages |-> FALSE],
         toAnalyze |-> <<>>, lookedUp |-> {},
         triggers  |-> [i \in DOMAIN messages |-> <<>>],
         gets      |-> {}, hits |-> {}, raw |-> <<>>, missing |-> {}])

\* A pipeline that merges fallback results when the analyzer failed.
FinishMergingOnError(prep, resp, t) ==
    IF Len(prep.toAnalyze) = 0
    THEN [err |-> "", out |-> prep.out, sent |-> <<>>, ids |-> {}, acc |-> prep]
    ELSE
    LET aiMessages == [k \in DOMAIN prep.toAnalyze |-> prep.toAnalyze[k].message]
        a          == analyze(aiMessages, resp)
        m          == MergeFrom(prep.toAnalyze, ByID(a.results), t, 1, prep)
        ids        == {a.results[j].MessageID : j \in DOMAIN a.results}
    IN  IF a.err
        THEN [err |-> "ai", out |-> <<>>, sent |-> a.sent, ids |-> {}, acc |-> m]
        ELSE [err |-> "", out |-> m.out, sent |-> a.sent, ids |-> ids, acc |-> m]

\* A pipeline that withdraws the counts and dispatches of the preparation
\* pass when the analyzer failed.
FinishRollingBack(prep, resp, t) ==
    IF Len(prep.toAnalyze) = 0
    THEN [err |-> "", out |-> prep.out, sent |-> <<>>, ids |-> {}, acc |-> prep]
    ELSE
    LET aiMessages == [k \in DOMAIN prep.toAnalyze |-> prep.toAnalyze[k].message]
        a          == analyze(aiMessages, resp)
    IN  IF a.err
        THEN [err |-> "ai", out |-> <<>>, sent |-> a.sent, ids |-> {},
              acc |-> [prep EXCEPT !.cs.processed = processed, !.cs.trace = <<>>]]
        ELSE LET m   == MergeFrom(prep.toAnalyze, ByID(a.results), t, 1, prep)
                 ids == {a.results[j].MessageID : j \in DOMAIN a.results}
             IN
             IF \E i \in DOMAIN m.filled : ~m.filled[i]
             THEN [err |-> "core: internal batch result mismatch", out |-> <<>>,
                   sent |-> a.sent, ids |-> ids, acc |-> m]
             ELSE [err |-> "", out |-> m.out, sent |-> a.sent, ids |-> ids, acc |-> m]

\* The rest of ProcessBatchWithOptions: the AI call, the merge and the final
\* loop over the slots.  The result is [err, out, sent, ids, acc], ids being
\* the message ids of the results the analyzer returned.
Finish(prep, resp, t) ==
    IF Len(prep.toAnalyze) = 0
    THEN [err |-> "", out |-> prep.out, sent |-> <<>>, ids |-> {}, acc |-> prep]
    ELSE
    LET aiMessages == [k \in DOMAIN prep.toAnalyze |-> prep.toAnalyze[k].message]
        a          == analyze(aiMessages, resp)
    IN  IF a.err
        THEN [err |-> "ai", out |-> <<>>, sent |-> a.sent, ids |-> {}, acc |-> prep]
        ELSE LET m   == MergeFrom(prep.toAnalyze, ByID(a.results), t, 1, prep)
                 ids == {a.results[j].MessageID : j \in DOMAIN a.results}
             IN
             IF \E i \in DOMAIN m.filled : ~m.filled[i]
             THEN [err |-> "core: internal batch result mismatch", out |-> <<>>,
                   sent |-> a.sent, ids |-> ids, acc |-> m]
             ELSE [err |-> "", out |-> m.out, sent |-> a.sent, ids |-> ids, acc |-> m]

Observation(messages, skip, r, t) ==
    [called |-> TRUE, messages |-> messages, skip |-> skip, err |-> r.err,
     out |-> r.out, at |-> t,
     queued   |-> [k \in DOMAIN r.acc.toAnalyze |-> r.acc.toAnalyze[k].index],
     sent     |-> r.sent, ids |-> r.ids, lookedUp |-> r.acc.lookedUp, triggers |-> r.acc.triggers,
     gets     |-> r.acc.gets, hits |-> r.acc.hits, raw |-> r.acc.raw,
     missing  |-> r.acc.missing, trace |-> r.acc.cs.trace, engine |-> engine]

\* What is remembered of a ProcessMessage call once its caller has taken the
\* result, with the trigger engine as it is at that moment.
NoSummary ==
    [single |-> FALSE, message |-> <<>>, skip |-> FALSE, err |-> "", sent |-> 0,
     result |-> ZeroAIResult, at |-> 0, engine |-> EngineNew]

Summary(obs) ==
    IF Len(obs.messages) # 1 THEN NoSummary
    ELSE [single  |-> TRUE,
          message |-> obs.messages[1],
          skip    |-> obs.skip,
          err     |-> obs.err,
          sent    |-> Len(obs.sent),
          result  |-> IF Len(obs.out) = 1 THEN obs.out[1].AIResult ELSE ZeroAIResult,
          at      |-> obs.at,
          engine  |-> engine]

\* Core.ProcessMessageWithOptions: what it returns for the batch call it makes.
ProcessMessageResult(obs) ==
    IF obs.err # "" THEN [violation |-> ZeroViolation, err |-> obs.err]
    ELSE IF Len(obs.out) = 0 THEN [violation |-> ZeroViolation, err |-> "core: empty result"]
    ELSE [violation |-> obs.out[1], err |-> ""]

\* What storage.GetTokens may return: an error, or the stored tokens in some
\* order.
GetTokens(stored) ==
    {[err |-> "x", tokens |-> <<>>]}
    \cup {[err |-> "", tokens |-> o] : o \in Orderings(stored)}

\* A SyncOnce that empties the engine when it fails.
syncOnceClearing(eng, hasStorage, got) ==
    IF ~hasStorage \/ got.err # "" THEN [engine |-> EngineNew, err |-> "x"]
    ELSE [engine |-> ReplaceAll(got.tokens), err |-> ""]

\* Core.SyncOnce with the answer got of GetTokens: the engine it leaves and
\* the error it returns ("" for nil).
syncOnce(eng, hasStorage, got) ==
    IF ~hasStorage THEN [engine |-> eng, err |-> "core: storage is nil"]
    ELSE IF got.err # "" THEN [engine |-> eng, err |-> got.err]
    ELSE [engine |-> ReplaceAll(got.tokens), err |-> ""]

----------------------------------------------------------------------------
(* The environment: callers' messages and the analyzer's answers.          *)

dBad == <<"B", "A", "D", "x">>
dHi == <<"h", "i">>

Messages ==
    {[ID |-> 1, DialogID |-> "d1", User |-> 11, Data |-> dBad],
     [ID |-> 2, DialogID |-> "",   User |-> 22, Data |-> dBad],
     [ID |-> 0, DialogID |-> "",   User |-> 0,  Data |-> dHi]}

\* What an analyzer may put into a result, apart from the message id.
Bodies ==
    {[StatusCode |-> StatusDangerousIllegal, Reason |-> "r", Confidence |-> 90,
      TriggerTokens |-> <<<<" ", "H", "i">>>>, ViolatorUserID |-> 77],
     [StatusCode |-> 9, Reason |-> "", Confidence |-> 90,
      TriggerTokens |-> <<>>, ViolatorUserID |-> 0]}

ForeignID == 999

\* The results an analyzer may return for the messages it was sent: any body
\* under the id of one of the messages, under no id (0) or under a foreign id.
ResultsFor(messages) ==
    {[StatusCode |-> b.StatusCode, Reason |-> b.Reason, Confidence |-> b.Confidence,
      TriggerTokens |-> b.TriggerTokens, ViolatorUserID |-> b.ViolatorUserID,
      MessageID |-> id] :
        b \in Bodies, id \in {messages[k].ID : k \in DOMAIN messages} \cup {0, ForeignID}}

\* The answers of the analyzer to the queued messages: for AnalyzeBatch an
\* error or any list of at most MaxResults results; for Analyze one result per
\* message, or results for a prefix of the messages and then an error.
Responses(messages) ==
    IF Len(messages) = 0 THEN {[err |-> FALSE, results |-> <<>>]}
    ELSE IF cfg.batch
    THEN {[err |-> TRUE, results |-> <<>>]}
         \cup {[err |-> FALSE, results |-> rs] :
                  rs \in SeqsUpTo(ResultsFor(messages), MaxResults)}
    ELSE LET R == ResultsFor(messages)
             Ok(rs) == [k \in DOMAIN rs |-> [err |-> FALSE, res |-> rs[k]]]
             Failed == [err |-> TRUE, res |-> ZeroAIResult]
         IN  {[answers |-> Ok(rs)] : rs \in [1..Len(messages) -> R]}
             \cup UNION {{[answers |-> Append(Ok(rs), Failed)] : rs \in [1..n -> R]}
                         : n \in 0..(Len(messages) - 1)}

----------------------------------------------------------------------------
(* State machine.                                                          *)

\* sync.RWMutex, unlocked, and the two mutexes of a new Core and its Engine.
Unlocked == [readers |-> 0, writer |-> FALSE]
NoLocks == [engine |-> Unlocked, events |-> Unlocked]

\* No goroutine is in the middle of an operation.
NoTasks == <<>>

Handlers == {"h1", "h2"}

\* The initial tokens of the storage, as stored (not normalized).
StoredTokens == {<<"B", "a", "d">>}

\* The Cores studied: with a batching analyzer, with a plain analyzer and
\* callbacks that return errors, and without storage.
Configs ==
    {[ai |-> TRUE, storage |-> TRUE, batch |-> b, allCb |-> TRUE, cbErr |-> ~b,
      autoLearn |-> TRUE, writeFails |-> TRUE] : b \in BOOLEAN}
    \cup {[ai |-> TRUE, storage |-> FALSE, batch |-> TRUE, allCb |-> FALSE,
           cbErr |-> FALSE, autoLearn |-> TRUE, writeFails |-> TRUE]}

\* The Cores studied for the dispatch alone: with and without OnProcessed,
\* with callbacks that return nil and callbacks that return errors.
ConfigsBus ==
    {[ai |-> TRUE, storage |-> TRUE, batch |-> TRUE, allCb |-> a, cbErr |-> f,
      autoLearn |-> TRUE, writeFails |-> TRUE] : a \in BOOLEAN, f \in BOOLEAN}

\* The state New leaves: an empty engine, an empty cache, no subscription.
Init ==
    /\ cfg \in Configs
    /\ engine = EngineNew
    /\ cache = newNegativeResultCache
    /\ events = [ev \in EventNames |-> <<>>]
    /\ processed = [code \in 0..6 |-> 0]
    /\ storage = IF cfg.storage THEN StoredTokens ELSE {}
    /\ pending = EmptyBag
    /\ now = 0
    /\ calls = 0
    /\ last = NoCall
    /\ prev = NoSummary
    /\ mu = NoLocks
    /\ tasks = NoTasks

\* Core.ProcessBatchWithOptions (and ProcessBatch, ProcessMessage,
\* ProcessMessageWithOptions, which only delegate to it).
ProcessBatchWithOptions ==
    /\ calls < MaxCalls
    /\ last = NoCall
    /\ \E messages \in SeqsUpTo(Messages, MaxBatch), skip \in BOOLEAN :
         /\ calls' = calls + 1
         /\ IF validate # ""
            THEN /\ last' = [NoCall EXCEPT !.called = TRUE, !.messages = messages,
                                           !.skip = skip,
                                           !.err = validate, !.at = now,
                                           !.engine = engine]
                 /\ UNCHANGED <<cache, engine, processed, pending>>
            ELSE IF Len(messages) = 0
            THEN /\ last' = [NoCall EXCEPT !.called = TRUE, !.skip = skip, !.at = now,
                                           !.engine = engine]
                 /\ UNCHANGED <<cache, engine, processed, pending>>
            ELSE \E ord \in Orderings(IF skip THEN {} ELSE
                        UNION {FindTriggers(engine, Truncate(messages[i].Data)) :
                                  i \in DOMAIN messages}) :
                 \E prep \in {Prepare(messages, skip, ord, now)} :
                   \E resp \in Responses([k \in DOMAIN prep.toAnalyze |->
                                             prep.toAnalyze[k].message]) :
                     \E r \in {Finish(prep, resp, now)} :
                         /\ last' = Observation(messages, skip, r, now)
                         /\ cache' = r.acc.cs.cache
                         /\ engine' = r.acc.cs.engine
                         /\ processed' = r.acc.cs.processed
                         /\ pending' = r.acc.cs.pending
    /\ UNCHANGED <<cfg, events, storage, now, prev, mu, tasks>>

\* The caller takes the result of its call; what the call was observed to do
\* is summarized for the next call.
Return ==
    /\ last # NoCall
    /\ last' = NoCall
    /\ prev' = Summary(last)
    /\ UNCHANGED <<cfg, engine, cache, events, processed, storage, pending, now, calls, mu, tasks>>

\* Core.SyncOnce: GetTokens returns the stored tokens in some order, or fails.
SyncOnce ==
    /\ last = NoCall
    /\ \E got \in GetTokens(storage) :
          engine' = syncOnce(engine, cfg.storage, got).engine
    /\ UNCHANGED <<cfg, cache, events, processed, storage, pending, now, calls, last, prev, mu, tasks>>

\* A goroutine spawned by learn that loses its token without writing it.
PersistTokenDropped ==
    /\ last = NoCall
    /\ \E tok \in BagToSet(pending) :
         /\ pending' = pending (-) SetToBag({tok})
         /\ UNCHANGED storage
    /\ UNCHANGED <<cfg, engine, cache, events, processed, now, calls, last, prev, mu, tasks>>

\* The goroutine spawned by learn: storage.AddToken(tok), which lands, or
\* fails (an error or the 2 s timeout) with a storage that rejects writes.
PersistToken ==
    /\ last = NoCall
    /\ \E tok \in BagToSet(pending) :
         /\ pending' = pending (-) SetToBag({tok})
         /\ \/ storage' = storage \cup {tok}
            \/ cfg.writeFails /\ UNCHANGED storage
    /\ UNCHANGED <<cfg, engine, cache, events, processed, now, calls, last, prev, mu, tasks>>

\* A sweep of the janitor started by startNegativeCacheJanitor.
JanitorSweep ==
    /\ last = NoCall
    /\ cache' = RemoveExpired(cache, now)
    /\ UNCHANGED <<cfg, engine, events, processed, storage, pending, now, calls, last, prev, mu, tasks>>

\* Time passes.
Tick ==
    /\ last = NoCall
    /\ now < MaxTime
    /\ now' = now + 1
    /\ UNCHANGED <<cfg, engine, cache, events, processed, storage, pending, calls, last, prev, mu, tasks>>

Next ==
    \/ ProcessBatchWithOptions
    \/ Return
    \/ SyncOnce
    \/ PersistToken
    \/ JanitorSweep
    \/ Tick

Spec == Init /\ [][Next]_vars

----------------------------------------------------------------------------
(* The event bus and the callback router on their own: handlers subscribe *)
(* and decisions are recorded one at a time.                               *)

\* "nil" stands for a nil EventHandler.
NilHandler == "nil"

\* The decisions recorded: one per status code, also outside 1..6.
Decisions ==
    {Violation([ID |-> code, DialogID |-> "d1", User |-> 1, Data |-> <<>>], FALSE,
               [ZeroAIResult EXCEPT !.StatusCode = code, !.ViolatorUserID = 1,
                                    !.MessageID = code]) : code \in 0..7}

\* The number of handlers subscribed.
Subscribed ==
    Len(events[EventAllowClean]) + Len(events[EventMarkAbuse])
    + Len(events[EventHumanReview]) + Len(events[EventAutoRestrict])
    + Len(events[EventAutoBanEscalate]) + Len(events[EventCriticalEscalate])

\* Core.On
On ==
    /\ last = NoCall
    /\ Subscribed < MaxHandlers
    /\ \E event \in EventNames, handler \in Handlers \cup {NilHandler} :
         IF handler = NilHandler THEN UNCHANGED events
         ELSE events' = [events EXCEPT ![event] = Append(@, handler)]
    /\ UNCHANGED <<cfg, engine, cache, processed, storage, pending, now, calls, last, prev, mu, tasks>>

\* Core.record of one decision.
Record ==
    /\ calls < MaxCalls
    /\ last = NoCall
    /\ \E v \in Decisions :
         \E cs \in {record([cache |-> cache, engine |-> engine, processed |-> processed,
                            pending |-> pending, trace |-> <<>>], v)} :
            /\ last' = [NoCall EXCEPT !.called = TRUE, !.out = <<v>>, !.at = now,
                                      !.trace = cs.trace, !.engine = engine]
            /\ processed' = cs.processed
    /\ calls' = calls + 1
    /\ UNCHANGED <<cfg, engine, cache, events, storage, pending, now, prev, mu, tasks>>

NextBus ==
    \/ On
    \/ Record
    \/ Return

\* The state New leaves for one of the Cores of ConfigsBus.
InitBus ==
    /\ cfg \in ConfigsBus
    /\ engine = EngineNew
    /\ cache = newNegativeResultCache
    /\ events = [ev \in EventNames |-> <<>>]
    /\ processed = [code \in 0..6 |-> 0]
    /\ storage = StoredTokens
    /\ pending = EmptyBag
    /\ now = 0
    /\ calls = 0
    /\ last = NoCall
    /\ prev = NoSummary
    /\ mu = NoLocks
    /\ tasks = NoTasks

SpecBus == InitBus /\ [][NextBus]_vars

----------------------------------------------------------------------------
(* The trigger engine alone, under any sequence of its operations.         *)

MaxListLen == 2

tBad == <<"B", "A", "D">>
tPhrase2 == <<"b", " ", "a">>
tPhrase3 == <<"A", " ", "a">>
tTab == <<"a", "\t", "b">>

\* The tokens handed to the engine: to be trimmed and lowercased, with a
\* non-word character, blank, three phrases, and two words around a tab.
EngineInputs ==
    {<<" ", "H", "i">>, tBad, <<"a", "-", "b">>, <<" ">>,
     <<"a", " ", "b">>, tPhrase2, tPhrase3, tTab}

\* The texts searched: empty, a token in upper case, a token inside a longer
\* word, a token with a non-word character, a phrase across two words, a
\* word and a phrase in mixed case, and two words around a tab.
EngineTexts ==
    {<<>>, <<"H", "I">>, <<"x", "h", "i">>, <<"a", "-", "b">>,
     <<"b", "a", " ", "a", "b">>, <<"B", "a", "d", " ", "a", " ", "B">>, tTab}

\* What the last operation on the engine was, with its argument and result.
NoOp == [op |-> "New", arg |-> <<>>, ret |-> FALSE]

InitEngine ==
    /\ cfg \in ConfigsBus
    /\ engine = EngineNew
    /\ cache = newNegativeResultCache
    /\ events = [ev \in EventNames |-> <<>>]
    /\ processed = [code \in 0..6 |-> 0]
    /\ storage = StoredTokens
    /\ pending = EmptyBag
    /\ now = 0
    /\ calls = 0
    /\ last = NoOp
    /\ prev = NoSummary
    /\ mu = NoLocks
    /\ tasks = NoTasks

CallAddToken ==
    /\ \E token \in EngineInputs :
       \E a \in {AddToken(engine, token)} :
          /\ engine' = a.state
          /\ last' = [op |-> "AddToken", arg |-> token, ret |-> a.ok]
    /\ UNCHANGED <<cfg, cache, events, processed, storage, pending, now, calls, prev, mu, tasks>>

CallRemoveToken ==
    /\ \E token \in EngineInputs :
       \E a \in {RemoveToken(engine, token)} :
          /\ engine' = a.state
          /\ last' = [op |-> "RemoveToken", arg |-> token, ret |-> a.ok]
    /\ UNCHANGED <<cfg, cache, events, processed, storage, pending, now, calls, prev, mu, tasks>>

CallReplaceAll ==
    /\ \E list \in SeqsUpTo(EngineInputs, MaxListLen) :
          /\ engine' = ReplaceAll(list)
          /\ last' = [op |-> "ReplaceAll", arg |-> list, ret |-> FALSE]
    /\ UNCHANGED <<cfg, cache, events, processed, storage, pending, now, calls, prev, mu, tasks>>

CallClear ==
    /\ engine' = Clear
    /\ last' = [op |-> "Clear", arg |-> <<>>, ret |-> FALSE]
    /\ UNCHANGED <<cfg, cache, events, processed, storage, pending, now, calls, prev, mu, tasks>>

CallFindTriggers ==
    /\ \E text \in EngineTexts :
          last' = [op |-> "FindTriggers", arg |-> text, ret |-> FindTriggers(engine, text)]
    /\ UNCHANGED <<cfg, engine, cache, events, processed, storage, pending, now, calls, prev, mu, tasks>>

NextEngine ==
    \/ CallAddToken
    \/ CallRemoveToken
    \/ CallReplaceAll
    \/ CallClear
    \/ CallFindTriggers

SpecEngine == InitEngine /\ [][NextEngine]_vars

----------------------------------------------------------------------------
(* The trigger engine under concurrent goroutines: each operation in the   *)
(* steps between which another goroutine may run.                          *)

NumWorkers == 3

\* An RLock or Lock that does not wait for anybody.
CanLockAnyway(m) == TRUE

\* sync.RWMutex: RLock proceeds when no writer holds the mutex, Lock when
\* nobody holds it.
CanRLock(m) == ~m.writer
CanLock(m) == ~m.writer /\ m.readers = 0

Op(op, arg) == [op |-> op, arg |-> arg]

\* A goroutine that has the operations of prog to run, one after the other.
\* found and ok are locals of the operation under way, seen is the engine
\* states that existed while it held the read lock, rets what the operations
\* returned.
Task(prog) ==
    [prog |-> prog, pc |-> "idle", found |-> {}, ok |-> FALSE, seen |-> {}, rets |-> <<>>]

tX == <<"x">>
tOther == <<"h", "i">>
textOther == <<"H", "I", " ", "h", "i">>
textSwap == <<"B", "a", "d", " ", "a", " ", "B">>

\* The goroutine of TestEngineConcurrentAccess.
WorkerProgram ==
    <<Op("FindTriggers", textOther), Op("AddToken", tX), Op("RemoveToken", tX)>>

\* Lookups that run while one goroutine replaces the tokens and another
\* clears them.
SwapTasks ==
    <<Task(<<Op("FindTriggers", textSwap), Op("FindTriggers", textSwap)>>),
      Task(<<Op("ReplaceAll", <<tBad, <<" ">>, tBad>>)>>),
      Task(<<Op("Clear", <<>>), Op("ReplaceAll", <<<<"a", " ", "b">>, tTab>>)>>)>>

Current(w) == Head(tasks[w].prog)

\* The operation of goroutine w returns ret.
Returned(w, ret) ==
    [tasks[w] EXCEPT !.prog = Tail(@), !.pc = "idle", !.found = {}, !.ok = FALSE,
                     !.seen = {},
                     !.rets = Append(@, [op |-> Current(w).op, arg |-> Current(w).arg,
                                         ret |-> ret, seen |-> tasks[w].seen])]

\* The goroutines of ts that hold the read lock have seen the state st.
Observed(ts, st) ==
    [v \in DOMAIN ts |->
        IF ts[v].pc \in {"pass1", "pass2", "runlock"}
        THEN [ts[v] EXCEPT !.seen = @ \cup {st}]
        ELSE ts[v]]

\* Engine.FindTriggers: e.mu.RLock().
FindRLock ==
    /\ \E w \in DOMAIN tasks :
          /\ tasks[w].pc = "idle" /\ tasks[w].prog # <<>>
          /\ Current(w).op = "FindTriggers"
          /\ CanRLock(mu.engine)
          /\ mu' = [mu EXCEPT !.engine.readers = @ + 1]
          /\ tasks' = [tasks EXCEPT ![w].pc = "pass1", ![w].seen = {engine}]
    /\ UNCHANGED <<cfg, engine, cache, events, processed, storage, pending, now, calls,
                   last, prev>>

\* Engine.FindTriggers: the test for an empty state or text, and the first
\* pass over the words of the text.
FindPass1 ==
    /\ \E w \in DOMAIN tasks :
          /\ tasks[w].pc = "pass1"
          /\ LET lower == ToLower(Current(w).arg) IN
             tasks' = IF engine.tokens = {} \/ lower = <<>>
                      THEN [tasks EXCEPT ![w].pc = "runlock", ![w].found = {}]
                      ELSE [tasks EXCEPT ![w].pc = "pass2",
                                         ![w].found = {x \in Range(splitTokens(lower)) :
                                                          x \in engine.tokens}]
    /\ UNCHANGED <<cfg, engine, cache, events, processed, storage, pending, now, calls,
                   last, prev, mu>>

\* Engine.FindTriggers: the second pass, over the phrases.
FindPass2 ==
    /\ \E w \in DOMAIN tasks :
          /\ tasks[w].pc = "pass2"
          /\ LET lower == ToLower(Current(w).arg) IN
             tasks' = [tasks EXCEPT ![w].pc = "runlock",
                                    ![w].found = @ \cup
                                        {q \in Range(engine.phrases) :
                                            q \notin tasks[w].found /\ Contains(lower, q)}]
    /\ UNCHANGED <<cfg, engine, cache, events, processed, storage, pending, now, calls,
                   last, prev, mu>>

\* Engine.FindTriggers: e.mu.RUnlock() and the return of what was found.
FindRUnlock ==
    /\ \E w \in DOMAIN tasks :
          /\ tasks[w].pc = "runlock"
          /\ mu' = [mu EXCEPT !.engine.readers = @ - 1]
          /\ tasks' = [tasks EXCEPT ![w] = Returned(w, tasks[w].found)]
    /\ UNCHANGED <<cfg, engine, cache, events, processed, storage, pending, now, calls,
                   last, prev>>

\* Engine.AddToken and Engine.RemoveToken before the lock: an empty
\* normalized token returns false.
Normalize ==
    /\ \E w \in DOMAIN tasks :
          /\ tasks[w].pc = "idle" /\ tasks[w].prog # <<>>
          /\ Current(w).op \in {"AddToken", "RemoveToken"}
          /\ tasks' = IF normalizeToken(Current(w).arg) = <<>>
                      THEN [tasks EXCEPT ![w] = Returned(w, FALSE)]
                      ELSE [tasks EXCEPT ![w].pc = "lock"]
    /\ UNCHANGED <<cfg, engine, cache, events, processed, storage, pending, now, calls,
                   last, prev, mu>>

\* Engine.ReplaceAll before the lock: the state `next` is built from the list
\* (by ReplaceAll, which reads nothing else).
Build ==
    /\ \E w \in DOMAIN tasks :
          /\ tasks[w].pc = "idle" /\ tasks[w].prog # <<>>
          /\ Current(w).op = "ReplaceAll"
          /\ tasks' = [tasks EXCEPT ![w].pc = "lock"]
    /\ UNCHANGED <<cfg, engine, cache, events, processed, storage, pending, now, calls,
                   last, prev, mu>>

\* e.mu.Lock() of AddToken, RemoveToken, ReplaceAll and Clear.
WriteLock ==
    /\ \E w \in DOMAIN tasks :
          /\ tasks[w].prog # <<>>
          /\ \/ tasks[w].pc = "lock"
             \/ tasks[w].pc = "idle" /\ Current(w).op = "Clear"
          /\ CanLock(mu.engine)
          /\ mu' = [mu EXCEPT !.engine.writer = TRUE]
          /\ tasks' = [tasks EXCEPT ![w].pc = IF Current(w).op \in {"AddToken", "RemoveToken"}
                                              THEN "lookup" ELSE "swap"]
    /\ UNCHANGED <<cfg, engine, cache, events, processed, storage, pending, now, calls,
                   last, prev>>

\* AddToken and RemoveToken: the lookup of the token in e.state.tokens.
Lookup ==
    /\ \E w \in DOMAIN tasks :
          /\ tasks[w].pc = "lookup"
          /\ LET exists == normalizeToken(Current(w).arg) \in engine.tokens IN
             tasks' = IF (Current(w).op = "AddToken") = exists
                      THEN [tasks EXCEPT ![w].pc = "unlock", ![w].ok = FALSE]
                      ELSE [tasks EXCEPT ![w].pc = "mutate", ![w].ok = TRUE]
    /\ UNCHANGED <<cfg, engine, cache, events, processed, storage, pending, now, calls,
                   last, prev, mu>>

\* AddToken and RemoveToken: the insertion or the deletion.
Mutate ==
    /\ \E w \in DOMAIN tasks :
          /\ tasks[w].pc = "mutate"
          /\ engine' = IF Current(w).op = "AddToken"
                       THEN AddToken(engine, Current(w).arg).state
                       ELSE RemoveToken(engine, Current(w).arg).state
          /\ tasks' = Observed([tasks EXCEPT ![w].pc = "unlock"], engine')
    /\ UNCHANGED <<cfg, cache, events, processed, storage, pending, now, calls,
                   last, prev, mu>>

\* A ReplaceAll that keeps the tokens the engine holds and adds the list.
SwapMerging ==
    /\ \E w \in DOMAIN tasks :
          /\ tasks[w].pc = "swap"
          /\ engine' = IF Current(w).op = "ReplaceAll"
                       THEN ReplaceAllFrom(engine, Current(w).arg)
                       ELSE Clear
          /\ tasks' = Observed([tasks EXCEPT ![w].pc = "unlock"], engine')
    /\ UNCHANGED <<cfg, cache, events, processed, storage, pending, now, calls,
                   last, prev, mu>>

\* ReplaceAll and Clear: e.state = next.
Swap ==
    /\ \E w \in DOMAIN tasks :
          /\ tasks[w].pc = "swap"
          /\ engine' = IF Current(w).op = "ReplaceAll"
                       THEN ReplaceAll(Current(w).arg)
                       ELSE Clear
          /\ tasks' = Observed([tasks EXCEPT ![w].pc = "unlock"], engine')
    /\ UNCHANGED <<cfg, cache, events, processed, storage, pending, now, calls,
                   last, prev, mu>>

\* e.mu.Unlock() and the return.
WriteUnlock ==
    /\ \E w \in DOMAIN tasks :
          /\ tasks[w].pc = "unlock"
          /\ mu' = [mu EXCEPT !.engine.writer = FALSE]
          /\ tasks' = [tasks EXCEPT ![w] = Returned(w, tasks[w].ok)]
    /\ UNCHANGED <<cfg, engine, cache, events, processed, storage, pending, now, calls,
                   last, prev>>

\* The engine of TestEngineConcurrentAccess with its goroutines, one to
\* NumWorkers of them.
InitWorkers ==
    /\ cfg \in ConfigsBus
    /\ engine = AddToken(EngineNew, tOther).state
    /\ cache = newNegativeResultCache
    /\ events = [ev \in EventNames |-> <<>>]
    /\ processed = [code \in 0..6 |-> 0]
    /\ storage = StoredTokens
    /\ pending = EmptyBag
    /\ now = 0
    /\ calls = 0
    /\ last = NoOp
    /\ prev = NoSummary
    /\ mu = NoLocks
    /\ \E n \in 1..NumWorkers : tasks = [w \in 1..n |-> Task(WorkerProgram)]

NextWorkers ==
    \/ FindRLock
    \/ FindPass1
    \/ FindPass2
    \/ FindRUnlock
    \/ Normalize
    \/ WriteLock
    \/ Lookup
    \/ Mutate
    \/ WriteUnlock

SpecWorkers == InitWorkers /\ [][NextWorkers]_vars

\* An engine holding a phrase, with the lookups and the swaps of SwapTasks.
InitSwap ==
    /\ cfg \in ConfigsBus
    /\ engine = ReplaceAll(<<<<"a", " ", "b">>>>)
    /\ cache = newNegativeResultCache
    /\ events = [ev \in EventNames |-> <<>>]
    /\ processed = [code \in 0..6 |-> 0]
    /\ storage = StoredTokens
    /\ pending = EmptyBag
    /\ now = 0
    /\ calls = 0
    /\ last = NoOp
    /\ prev = NoSummary
    /\ mu = NoLocks
    /\ tasks = SwapTasks

NextSwap ==
    \/ FindRLock
    \/ FindPass1
    \/ FindPass2
    \/ FindRUnlock
    \/ Build
    \/ WriteLock
    \/ Swap
    \/ WriteUnlock

SpecSwap == InitSwap /\ [][NextSwap]_vars

----------------------------------------------------------------------------
(* Core.Run: the initial sync and the periodic sync until the context is   *)
(* cancelled, next to direct calls of SyncOnce, tokens added in memory and *)
(* writes to the storage by others.                                        *)

MaxWarns == 2

\* The tokens the storage may hold: one in two spellings and a blank one.
RunTokens == {<<"B", "a", "d">>, <<"b", "a", "d">>, <<" ">>}

\* The Cores studied: with and without analyzer, with and without storage.
ConfigsRun ==
    {[ai |-> a, storage |-> s, batch |-> TRUE, allCb |-> FALSE, cbErr |-> FALSE,
      autoLearn |-> TRUE, writeFails |-> TRUE] : a \in BOOLEAN, s \in BOOLEAN}

\* ctx.Err() of a cancelled context.
Canceled == "context canceled"

\* The goroutine that calls Run: where it is, its context, whether a tick
\* waits in ticker.C, what Run returned and how many warnings it logged
\* (counted up to MaxWarns).
RunTask == [pc |-> "idle", ctx |-> "live", tick |-> FALSE, err |-> "", warns |-> 0]

\* A SyncOnce that returned: what GetTokens answered, the error returned and
\* the tokens the engine held when it was called.
SyncOp(got, err, before) ==
    [op |-> "SyncOnce", arg |-> got, ret |-> err, before |-> before]

InitRun ==
    /\ cfg \in ConfigsRun
    /\ engine = EngineNew
    /\ cache = newNegativeResultCache
    /\ events = [ev \in EventNames |-> <<>>]
    /\ processed = [code \in 0..6 |-> 0]
    /\ storage \in IF cfg.storage THEN SUBSET RunTokens ELSE {{}}
    /\ pending = EmptyBag
    /\ now = 0
    /\ calls = 0
    /\ last = NoOp
    /\ prev = NoSummary
    /\ mu = NoLocks
    /\ tasks = <<RunTask>>

\* Run up to its loop: validate, the initial SyncOnce and the new ticker.
RunStart ==
    /\ tasks[1].pc = "idle"
    /\ IF validate # ""
       THEN /\ tasks' = [tasks EXCEPT ![1].pc = "returned", ![1].err = validate]
            /\ UNCHANGED <<engine, last>>
       ELSE \E got \in GetTokens(storage) :
            \E s \in {syncOnce(engine, cfg.storage, got)} :
               /\ engine' = s.engine
               /\ last' = SyncOp(got, s.err, engine.tokens)
               /\ tasks' = IF s.err # ""
                           THEN [tasks EXCEPT ![1].pc = "returned", ![1].err = s.err]
                           ELSE [tasks EXCEPT ![1].pc = "loop"]
    /\ UNCHANGED <<cfg, cache, events, processed, storage, pending, now, calls, prev, mu>>

\* sync_interval has passed: the ticker puts a tick into ticker.C, which
\* holds one.
TickerFires ==
    /\ tasks[1].pc = "loop"
    /\ ~tasks[1].tick
    /\ tasks' = [tasks EXCEPT ![1].tick = TRUE]
    /\ UNCHANGED <<cfg, engine, cache, events, processed, storage, pending, now, calls, last, prev, mu>>

\* A periodic sync that ends the loop when it fails.
RunTickStopping ==
    /\ tasks[1].pc = "loop"
    /\ tasks[1].tick
    /\ \E got \in GetTokens(storage) :
       \E s \in {syncOnce(engine, cfg.storage, got)} :
          /\ engine' = s.engine
          /\ last' = SyncOp(got, s.err, engine.tokens)
          /\ tasks' = IF s.err # ""
                      THEN [tasks EXCEPT ![1].tick = FALSE, ![1].pc = "returned",
                                         ![1].err = s.err]
                      ELSE [tasks EXCEPT ![1].tick = FALSE]
    /\ UNCHANGED <<cfg, cache, events, processed, storage, pending, now, calls, prev, mu>>

\* The select of Run takes the tick: SyncOnce, and a warning when it fails.
RunTick ==
    /\ tasks[1].pc = "loop"
    /\ tasks[1].tick
    /\ \E got \in GetTokens(storage) :
       \E s \in {syncOnce(engine, cfg.storage, got)} :
          /\ engine' = s.engine
          /\ last' = SyncOp(got, s.err, engine.tokens)
          /\ tasks' = IF s.err # ""
                      THEN [tasks EXCEPT ![1].tick = FALSE,
                                         ![1].warns = IF @ < MaxWarns THEN @ + 1 ELSE @]
                      ELSE [tasks EXCEPT ![1].tick = FALSE]
    /\ UNCHANGED <<cfg, cache, events, processed, storage, pending, now, calls, prev, mu>>

\* The select of Run takes ctx.Done(): Run returns ctx.Err().
RunDone ==
    /\ tasks[1].pc = "loop"
    /\ tasks[1].ctx = "canceled"
    /\ tasks' = [tasks EXCEPT ![1].pc = "returned", ![1].err = Canceled]
    /\ UNCHANGED <<cfg, engine, cache, events, processed, storage, pending, now, calls, last, prev, mu>>

\* The owner of the context cancels it.
Cancel ==
    /\ tasks[1].ctx = "live"
    /\ tasks' = [tasks EXCEPT ![1].ctx = "canceled"]
    /\ UNCHANGED <<cfg, engine, cache, events, processed, storage, pending, now, calls, last, prev, mu>>

\* A direct call of Core.SyncOnce.
CallSyncOnce ==
    /\ \E got \in GetTokens(storage) :
       \E s \in {syncOnce(engine, cfg.storage, got)} :
          /\ engine' = s.engine
          /\ last' = SyncOp(got, s.err, engine.tokens)
    /\ UNCHANGED <<cfg, cache, events, processed, storage, pending, now, calls, prev, mu, tasks>>

\* learn adds a token to the engine that the storage does not hold.
AddInMemory ==
    /\ \E a \in {AddToken(engine, tX)} :
          /\ engine' = a.state
          /\ last' = [op |-> "AddToken", arg |-> tX, ret |-> a.ok]
    /\ UNCHANGED <<cfg, cache, events, processed, storage, pending, now, calls, prev, mu, tasks>>

\* Somebody else adds a token to the storage or removes one from it.
StorageWrite ==
    /\ cfg.storage
    /\ \E tok \in RunTokens :
          storage' = IF tok \in storage THEN storage \ {tok} ELSE storage \cup {tok}
    /\ UNCHANGED <<cfg, engine, cache, events, processed, pending, now, calls, last, prev, mu, tasks>>

NextRun ==
    \/ RunStart
    \/ TickerFires
    \/ RunTick
    \/ RunDone
    \/ Cancel
    \/ CallSyncOnce
    \/ AddInMemory
    \/ StorageWrite

SpecRun == InitRun /\ [][NextRun]_vars

\* The goroutine of Run is scheduled, and its select, which chooses at
\* random among the cases that are ready, does not pass over a case that
\* stays ready for ever.
SpecRunFair == SpecRun /\ WF_vars(RunTick) /\ WF_vars(RunDone)

----------------------------------------------------------------------------
(* The event bus step by step: goroutines that subscribe with On and       *)
(* goroutines that dispatch an event to handlers, one of which subscribes  *)
(* another handler while it runs.                                          *)

\* A handler that calls On(event, "h1") for the event it is invoked with and
\* returns nil.
RegisteringHandler == "hReg"

\* A goroutine of the bus: handlers is the snapshot of the dispatch under
\* way, i the index of its next handler, trace the handlers it has invoked,
\* seen the handlers subscribed when it took the read lock, on the
\* <<event, handler>> of the On under way and nested whether that On was
\* called by a handler.
BusTask(prog) ==
    [prog |-> prog, pc |-> "idle", handlers |-> <<>>, i |-> 0, trace |-> <<>>,
     seen |-> <<>>, on |-> <<>>, nested |-> FALSE, rets |-> <<>>]

\* The operation of goroutine w returns ret.
BusReturned(w, ret) ==
    [tasks[w] EXCEPT !.prog = Tail(@), !.pc = "idle", !.handlers = <<>>, !.i = 0,
                     !.trace = <<>>, !.seen = <<>>, !.on = <<>>, !.nested = FALSE,
                     !.rets = Append(@, [op |-> Current(w).op, arg |-> Current(w).arg,
                                         ret |-> ret, seen |-> tasks[w].seen])]

\* The goroutines: one dispatches a clean decision twice; the other
\* subscribes to another event, passes a nil handler and subscribes to the
\* event dispatched.
BusPrograms ==
    {<<BusTask(<<Op("dispatchEvent", StatusClean), Op("dispatchEvent", StatusClean)>>),
       BusTask(subscriber)>> :
        subscriber \in {<<>>,
                        <<Op("On", <<EventAllowClean, NilHandler>>),
                          Op("On", <<EventAllowClean, "h2">>)>>,
                        <<Op("On", <<EventMarkAbuse, "h2">>),
                          Op("On", <<EventAllowClean, "h2">>)>>}}

\* The handlers subscribed to the event dispatched before the goroutines
\* start.
BusSubscriptions ==
    {<<>>, <<RegisteringHandler>>, <<"h1", RegisteringHandler>>,
     <<RegisteringHandler, "h2">>}

InitDispatch ==
    /\ cfg \in {c \in ConfigsBus : c.allCb /\ ~c.cbErr}
    /\ engine = EngineNew
    /\ cache = newNegativeResultCache
    /\ \E hs \in BusSubscriptions :
          events = [ev \in EventNames |-> IF ev = EventAllowClean THEN hs ELSE <<>>]
    /\ processed = [code \in 0..6 |-> 0]
    /\ storage = StoredTokens
    /\ pending = EmptyBag
    /\ now = 0
    /\ calls = 0
    /\ last = NoOp
    /\ prev = NoSummary
    /\ mu = NoLocks
    /\ tasks \in BusPrograms

\* Core.On up to its lock: a nil handler is refused.
OnCall ==
    /\ \E w \in DOMAIN tasks :
          /\ tasks[w].pc = "idle" /\ tasks[w].prog # <<>>
          /\ Current(w).op = "On"
          /\ tasks' = [tasks EXCEPT ![w] =
                          IF Current(w).arg[2] = NilHandler
                          THEN BusReturned(w, "core: handler is nil")
                          ELSE [@ EXCEPT !.pc = "lock", !.on = Current(w).arg]]
    /\ UNCHANGED <<cfg, engine, cache, events, processed, storage, pending, now, calls, last, prev, mu>>

\* Core.On: c.eventsMu.Lock().
OnLock ==
    /\ \E w \in DOMAIN tasks :
          /\ tasks[w].pc = "lock"
          /\ CanLock(mu.events)
          /\ mu' = [mu EXCEPT !.events.writer = TRUE]
          /\ tasks' = [tasks EXCEPT ![w].pc = "append"]
    /\ UNCHANGED <<cfg, engine, cache, events, processed, storage, pending, now, calls, last, prev>>

\* Core.On: c.events[event] = append(c.events[event], handler).
OnAppend ==
    /\ \E w \in DOMAIN tasks :
          /\ tasks[w].pc = "append"
          /\ events' = [events EXCEPT ![tasks[w].on[1]] = Append(@, tasks[w].on[2])]
          /\ tasks' = [tasks EXCEPT ![w].pc = "unlock"]
    /\ UNCHANGED <<cfg, engine, cache, processed, storage, pending, now, calls, last, prev, mu>>

\* Core.On: c.eventsMu.Unlock() and return nil, to the caller or to the
\* handler that called it, which returns nil to the dispatch.
OnUnlock ==
    /\ \E w \in DOMAIN tasks :
          /\ tasks[w].pc = "unlock"
          /\ mu' = [mu EXCEPT !.events.writer = FALSE]
          /\ tasks' = [tasks EXCEPT ![w] =
                          IF tasks[w].nested
                          THEN [@ EXCEPT !.pc = "call", !.i = @ + 1, !.on = <<>>,
                                         !.nested = FALSE]
                          ELSE BusReturned(w, "")]
    /\ UNCHANGED <<cfg, engine, cache, events, processed, storage, pending, now, calls, last, prev>>

\* Core.dispatchEvent: c.eventsMu.RLock().
DispatchRLock ==
    /\ \E w \in DOMAIN tasks :
          /\ tasks[w].pc = "idle" /\ tasks[w].prog # <<>>
          /\ Current(w).op = "dispatchEvent"
          /\ CanRLock(mu.events)
          /\ mu' = [mu EXCEPT !.events.readers = @ + 1]
          /\ tasks' = [tasks EXCEPT ![w].pc = "snapshot",
                                    ![w].seen = events[eventNameFromCode(Current(w).arg)]]
    /\ UNCHANGED <<cfg, engine, cache, events, processed, storage, pending, now, calls, last, prev>>

\* A dispatch that copies the handlers and keeps the read lock while it
\* calls them.
DispatchSnapshotHoldingLock ==
    /\ \E w \in DOMAIN tasks :
          /\ tasks[w].pc = "snapshot"
          /\ tasks' = [tasks EXCEPT ![w].pc = "call", ![w].i = 1,
                                    ![w].handlers = events[eventNameFromCode(Current(w).arg)]]
    /\ UNCHANGED <<cfg, engine, cache, events, processed, storage, pending, now, calls, last, prev, mu>>

\* Core.dispatchEvent: the copy of the handlers and c.eventsMu.RUnlock().
DispatchSnapshot ==
    /\ \E w \in DOMAIN tasks :
          /\ tasks[w].pc = "snapshot"
          /\ mu' = [mu EXCEPT !.events.readers = @ - 1]
          /\ tasks' = [tasks EXCEPT ![w].pc = "call", ![w].i = 1,
                                    ![w].handlers = events[eventNameFromCode(Current(w).arg)]]
    /\ UNCHANGED <<cfg, engine, cache, events, processed, storage, pending, now, calls, last, prev>>

\* Core.dispatchEvent: the call of the next handler of the copy.  A plain
\* handler returns; the registering handler calls On.
DispatchCall ==
    /\ \E w \in DOMAIN tasks :
          /\ tasks[w].pc = "call"
          /\ tasks[w].i <= Len(tasks[w].handlers)
          /\ tasks' = [tasks EXCEPT ![w] =
                          IF tasks[w].handlers[tasks[w].i] = RegisteringHandler
                          THEN [@ EXCEPT !.trace = Append(@, RegisteringHandler),
                                         !.pc = "lock", !.nested = TRUE,
                                         !.on = <<eventNameFromCode(Current(w).arg), "h1">>]
                          ELSE [@ EXCEPT !.trace = Append(@, tasks[w].handlers[tasks[w].i]),
                                         !.i = @ + 1]]
    /\ UNCHANGED <<cfg, engine, cache, events, processed, storage, pending, now, calls, last, prev, mu>>

\* Core.dispatchEvent returns after the last handler of the copy.
DispatchReturn ==
    /\ \E w \in DOMAIN tasks :
          /\ tasks[w].pc = "call"
          /\ tasks[w].i > Len(tasks[w].handlers)
          /\ tasks' = [tasks EXCEPT ![w] = BusReturned(w, tasks[w].trace)]
    /\ UNCHANGED <<cfg, engine, cache, events, processed, storage, pending, now, calls, last, prev, mu>>

NextDispatch ==
    \/ OnCall
    \/ OnLock
    \/ OnAppend
    \/ OnUnlock
    \/ DispatchRLock
    \/ DispatchSnapshot
    \/ DispatchCall
    \/ DispatchReturn

SpecDispatch == InitDispatch /\ [][NextDispatch]_vars

----------------------------------------------------------------------------
(* The negative-result cache alone, with room for two entries, under any   *)
(* sequence of Get, Set, RemoveExpired and of writes by the Core, as time  *)
(* passes.                                                                 *)

twoEntryMaxBytes == 270

CacheKeys == {<<>>, <<"a">>, <<"b">>, <<"c">>}

\* The values written: a small one, a larger one, one with a status outside
\* 1..6 and one that alone exceeds the capacity.
vSmall == [ZeroAIResult EXCEPT !.StatusCode = StatusClean]
vBig ==
    [ZeroAIResult EXCEPT !.StatusCode = StatusDangerousIllegal,
                         !.TriggerTokens = <<<<"b", "a", "d">>, tPhrase3, <<"a", " ", "b">>>>]
vInvalid == [ZeroAIResult EXCEPT !.StatusCode = 9]
vHuge ==
    [ZeroAIResult EXCEPT !.StatusCode = StatusSuspicious,
                         !.TriggerTokens = <<[k \in 1..twoEntryMaxBytes |-> "a"]>>]

\* The calls of Set: the small and the larger value under every key, and
\* under the key "a" a ttl of zero, a negative ttl and the two other values;
\* the empty key; a longer ttl.
CacheWrites ==
    {<<key, value, 1>> : key \in CacheKeys \ {<<>>}, value \in {vSmall, vBig}}
    \cup {<<<<"a">>, vSmall, 0>>, <<<<"a">>, vBig, -1>>, <<<<"a">>, vInvalid, 1>>,
          <<<<"a">>, vHuge, 1>>, <<<<>>, vSmall, 1>>, <<<<"c">>, vSmall, 2>>}

\* The calls of setCachedNegative.
CoreWrites ==
    {<<<<"a">>, vInvalid>>, <<<<"a">>, vHuge>>, <<<<>>, vSmall>>, <<<<"b">>, vBig>>}

\* The keys of the list of c, from the front to the back.
KeysOf(c) == [i \in DOMAIN c.lru |-> c.lru[i].key]

\* A call on the cache that returned: for Get, ret is the value and ok;
\* before is the keys of the list when it was called.
CacheOp(op, key, value, ttl, ret, before) ==
    [op |-> op, key |-> key, value |-> value, ttl |-> ttl, ret |-> ret,
     before |-> before]

NoValue == [value |-> ZeroAIResult, ok |-> FALSE]

NoCacheOp == CacheOp("New", <<>>, ZeroAIResult, 0, NoValue, <<>>)

\* A call of negativeResultCache.Set, by whomever, at the time at.
Written(key, value, ttl, at) == [key |-> key, value |-> value, ttl |-> ttl, at |-> at]

NoWrite == Written(<<>>, ZeroAIResult, 0, 0)

\* last is the call that returned last, prev the last call of Set.
InitCache ==
    /\ cfg \in {c \in ConfigsBus : c.allCb /\ ~c.cbErr}
    /\ engine = EngineNew
    /\ cache = [newNegativeResultCache EXCEPT !.maxBytes = twoEntryMaxBytes]
    /\ events = [ev \in EventNames |-> <<>>]
    /\ processed = [code \in 0..6 |-> 0]
    /\ storage = StoredTokens
    /\ pending = EmptyBag
    /\ now = 0
    /\ calls = 0
    /\ last = NoCacheOp
    /\ prev = NoWrite
    /\ mu = NoLocks
    /\ tasks = NoTasks

\* negativeResultCache.Get(key, now)
CallGet ==
    /\ \E key \in CacheKeys :
       \E g \in {CacheGet(cache, key, now)} :
          /\ cache' = g.cache
          /\ last' = CacheOp("Get", key, ZeroAIResult, 0, [value |-> g.value, ok |-> g.ok],
                             KeysOf(cache))
    /\ UNCHANGED <<cfg, engine, events, processed, storage, pending, now, calls, prev, mu, tasks>>

\* negativeResultCache.Set(key, value, ttl, now)
CallSet ==
    /\ \E w \in CacheWrites :
          /\ cache' = CacheSet(cache, w[1], w[2], w[3], now)
          /\ last' = CacheOp("Set", w[1], w[2], w[3], NoValue, KeysOf(cache))
          /\ prev' = Written(w[1], w[2], w[3], now)
    /\ UNCHANGED <<cfg, engine, events, processed, storage, pending, now, calls, mu, tasks>>

\* Core.setCachedNegative(key, result), which calls Set with the configured
\* ttl when it accepts the result.
CallSetCachedNegative ==
    /\ \E w \in CoreWrites :
          /\ cache' = setCachedNegative([cache |-> cache], w[1], w[2], now).cache
          /\ last' = CacheOp("setCachedNegative", w[1], w[2], negativeCacheTTL, NoValue,
                             KeysOf(cache))
          /\ prev' = IF w[1] # <<>> /\ Valid(w[2].StatusCode)
                     THEN Written(w[1], w[2], negativeCacheTTL, now)
                     ELSE prev
    /\ UNCHANGED <<cfg, engine, events, processed, storage, pending, now, calls, mu, tasks>>

\* negativeResultCache.RemoveExpired(now)
CallRemoveExpired ==
    /\ cache' = RemoveExpired(cache, now)
    /\ last' = CacheOp("RemoveExpired", <<>>, ZeroAIResult, 0, NoValue, KeysOf(cache))
    /\ UNCHANGED <<cfg, engine, events, processed, storage, pending, now, calls, prev, mu, tasks>>

\* Time passes between two calls.
CacheTick ==
    /\ now < MaxTime
    /\ now' = now + 1
    /\ UNCHANGED <<cfg, engine, cache, events, processed, storage, pending, calls, last, prev, mu, tasks>>

NextCache ==
    \/ CallGet
    \/ CallSet
    \/ CallSetCachedNegative
    \/ CallRemoveExpired
    \/ CacheTick

SpecCache == InitCache /\ [][NextCache]_vars

----------------------------------------------------------------------------
(* Auto-learn: single-message calls answered by an analyzer that names     *)
(* trigger tokens, the persistence goroutines and the sync.                *)

tHi == <<" ", "H", "i">>
tLong == <<"b", "a", "d", "d">>
tDash == <<"a", "-", "b">>
tBlank == <<" ">>
tPhrase == <<"a", " ", "b">>

\* The trigger token lists the analyzer names: a token to be trimmed and
\* lowercased, an over-long token before a token with a non-word character,
\* a blank token before a phrase.
LearnTokenLists == {<<tHi>>, <<tLong, tDash>>, <<tBlank, tPhrase>>}

\* The confidences the analyzer gives: just below and at the threshold.
LearnConfidences == {confidenceThreshold - 1, confidenceThreshold}

\* What the analyzer may put into a result, apart from the message id.
LearnBodies ==
    {[StatusCode |-> s, Reason |-> "r", Confidence |-> c,
      TriggerTokens |-> l, ViolatorUserID |-> 0] :
        s \in {StatusHumanReview, StatusCommercialOffPlatform},
        c \in LearnConfidences, l \in LearnTokenLists}

\* The answers of the analyzer to the queued message: one result, under the
\* id of the message or under a foreign id.
LearnResponses(messages) ==
    IF Len(messages) = 0 THEN {[err |-> FALSE, results |-> <<>>]}
    ELSE {[err |-> FALSE,
           results |-> <<[StatusCode |-> b.StatusCode, Reason |-> b.Reason,
                          Confidence |-> b.Confidence,
                          TriggerTokens |-> b.TriggerTokens,
                          ViolatorUserID |-> b.ViolatorUserID,
                          MessageID |-> id]>>] :
             b \in LearnBodies, id \in {messages[1].ID, ForeignID}}

\* The Cores studied for auto-learn: with a storage that accepts every write
\* and with a storage that may reject writes.
ConfigsLearn ==
    {[ai |-> TRUE, storage |-> TRUE, batch |-> TRUE, allCb |-> FALSE, cbErr |-> FALSE,
      autoLearn |-> TRUE, writeFails |-> w] : w \in BOOLEAN}

InitLearn ==
    /\ cfg \in ConfigsLearn
    /\ engine = EngineNew
    /\ cache = newNegativeResultCache
    /\ events = [ev \in EventNames |-> <<>>]
    /\ processed = [code \in 0..6 |-> 0]
    /\ storage = StoredTokens
    /\ pending = EmptyBag
    /\ now = 0
    /\ calls = 0
    /\ last = NoCall
    /\ prev = NoSummary
    /\ mu = NoLocks
    /\ tasks = NoTasks

\* Core.ProcessMessageWithOptions (and ProcessMessage), the batch call of one
\* message it makes included.
ProcessMessageWithOptions ==
    /\ calls < MaxCalls
    /\ last = NoCall
    /\ \E message \in Messages, skip \in BOOLEAN :
       \E messages \in {<<message>>} :
         /\ calls' = calls + 1
         /\ IF validate # ""
            THEN /\ last' = [NoCall EXCEPT !.called = TRUE, !.messages = messages,
                                           !.skip = skip,
                                           !.err = validate, !.at = now,
                                           !.engine = engine]
                 /\ UNCHANGED <<cache, engine, processed, pending>>
            ELSE \E ord \in Orderings(IF skip THEN {} ELSE
                        FindTriggers(engine, Truncate(message.Data))) :
                 \E prep \in {Prepare(messages, skip, ord, now)} :
                   \E resp \in LearnResponses([k \in DOMAIN prep.toAnalyze |->
                                                  prep.toAnalyze[k].message]) :
                     \E r \in {Finish(prep, resp, now)} :
                         /\ last' = Observation(messages, skip, r, now)
                         /\ cache' = r.acc.cs.cache
                         /\ engine' = r.acc.cs.engine
                         /\ processed' = r.acc.cs.processed
                         /\ pending' = r.acc.cs.pending
    /\ UNCHANGED <<cfg, events, storage, now, prev, mu, tasks>>

NextLearn ==
    \/ ProcessMessageWithOptions
    \/ Return
    \/ SyncOnce
    \/ PersistToken

SpecLearn == InitLearn /\ [][NextLearn]_vars

\* A call that has finished hands its result to its caller; the Go scheduler
\* runs every goroutine learn spawned, and the write it makes returns within
\* its 2 s timeout.
SpecLearnFair == SpecLearn /\ WF_vars(Return) /\ WF_vars(PersistToken)

----------------------------------------------------------------------------
(* Properties of the pipeline.                                             *)

\* The message the pipeline works on for input message m.
Prepared(m) == [m EXCEPT !.Data = Truncate(@)]

\* The indices of the call observed in `last`.
Indices == DOMAIN last.messages

\* The call observed in `last` passed validation.
Passed == last.called /\ last.err \in {"", "ai"}

\* The engine finds no trigger in message i of the call observed in `last`.
NoTrigger(i) == FindTriggers(last.engine, Truncate(last.messages[i].Data)) = {}

\* C1: with the default options, a message in which the trigger engine finds
\* no trigger is decided locally as clean, "no trigger", confidence 1.0, not
\* triggered, with the ids of the message; neither the cache nor the AI is
\* consulted for it.
C1_NoTriggerIsCleanLocally ==
    (Passed /\ ~last.skip) =>
        \A i \in Indices :
            NoTrigger(i) =>
                /\ i \notin last.gets
                /\ i \notin Range(last.queued)
                /\ last.err = "" =>
                      last.out[i] =
                        [Message   |-> Prepared(last.messages[i]),
                         Triggered |-> FALSE,
                         AIResult  |-> [StatusCode |-> StatusClean,
                                        Reason |-> "no trigger",
                                        Confidence |-> 100,
                                        TriggerTokens |-> <<>>,
                                        ViolatorUserID |-> last.messages[i].User,
                                        MessageID |-> last.messages[i].ID]]

\* A batch of two, decided while the engine holds tokens: one message has a
\* trigger and one, with ids, has none.
C1_Witness ==
    /\ Passed /\ ~last.skip /\ last.err = "" /\ Len(last.messages) = 2
    /\ last.engine.tokens # {}
    /\ \E i, j \in Indices :
          /\ NoTrigger(i) /\ ~NoTrigger(j)
          /\ last.out[i].AIResult.StatusCode = StatusClean

\* The AI results matched by id to input index i in the call observed.
RawFor(i) == {last.raw[k].res : k \in {k \in DOMAIN last.raw : last.raw[k].index = i}}

\* C2: a pipeline call that returns without error returns one decision per
\* input message, at the input's index, whatever the analyzer returned: the
\* slot carries the message's id in the message and in the result, and the
\* violator is the message's user or a nonzero user the AI named for it; the
\* "internal batch result mismatch" error never occurs.
C2_SlotIsDecisionOfInput ==
    last.called =>
        /\ last.err # "core: internal batch result mismatch"
        /\ last.err = "" =>
             /\ Len(last.out) = Len(last.messages)
             /\ \A i \in Indices :
                  /\ last.out[i].Message.ID = last.messages[i].ID
                  /\ last.out[i].AIResult.MessageID = last.messages[i].ID
                  /\ \/ last.out[i].AIResult.ViolatorUserID = last.messages[i].User
                     \/ \E r \in RawFor(i) :
                          /\ r.ViolatorUserID # 0
                          /\ last.out[i].AIResult.ViolatorUserID = r.ViolatorUserID

\* A batch of two returned without error: one slot answered from the cache
\* for a message whose id differs from its user, the other by the AI, which
\* named a violator of its own.
C2_Witness ==
    /\ last.called /\ last.err = "" /\ Len(last.messages) = 2
    /\ \E i, j \in Indices :
          /\ i \in last.hits /\ last.messages[i].ID # 0
          /\ j \in Range(last.queued)
          /\ last.out[j].AIResult.ViolatorUserID \notin {0, last.messages[j].User}

\* The second of two successive ProcessMessage calls on the same data, within
\* the TTL of what the first call may have cached.
Repeated ==
    /\ last.called /\ prev.single /\ Len(last.messages) = 1
    /\ last.messages[1].Data = prev.message.Data
    /\ last.at <= prev.at + negativeCacheTTL
    /\ prev.err = "" /\ prev.sent = 1

\* The call observed was answered from the cache with the status of the first.
AnsweredFromCache ==
    /\ last.err = "" /\ last.sent = <<>> /\ last.hits = {1}
    /\ last.out[1].AIResult.StatusCode = prev.result.StatusCode
    /\ last.out[1].AIResult.MessageID = last.messages[1].ID
    /\ last.out[1].AIResult.ViolatorUserID = last.messages[1].User

\* The call observed reaches the cache lookup for its only message.
ReachesCache == last.skip \/ ~NoTrigger(1)

EntriesOf(c, key) == {c.lru[j] : j \in {j \in DOMAIN c.lru : c.lru[j].key = key}}

\* C4: a lookup of the pipeline hits the cache exactly when the cache holds an
\* entry for the key with now <= expires_at; a lookup that finds an entry
\* with now > expires_at misses, the entry is deleted (the cache holds
\* afterwards no entry for the key but one written by this call), and the
\* message goes to the AI: a ProcessMessage sends it.
C4_VisibleUntilExpiry ==
    [][(last'.called /\ ~last.called) =>
         \A i \in last'.gets :
            LET key  == Truncate(last'.messages[i].Data)
                live == \E e \in EntriesOf(cache, key) : now <= e.expiresAt
                dead == \E e \in EntriesOf(cache, key) : now > e.expiresAt
            IN  /\ (i \in last'.hits) <=> live
                /\ dead =>
                     /\ i \in Range(last'.queued)
                     /\ \A e \in EntriesOf(cache', key) :
                           e.expiresAt = now + negativeCacheTTL
                     /\ Len(last'.messages) = 1 =>
                           last'.sent = <<<<Prepared(last'.messages[1])>>>>]_vars

\* A ProcessMessage on data that an earlier ProcessMessage had cached more
\* than the TTL before: it missed the cache and called the AI.
C4_Witness ==
    /\ last.called /\ prev.single /\ Len(last.messages) = 1
    /\ last.messages[1].Data = prev.message.Data
    /\ prev.err = "" /\ prev.sent = 1 /\ Valid(prev.result.StatusCode)
    /\ last.at > prev.at + negativeCacheTTL
    /\ last.gets = {1} /\ last.hits = {} /\ Len(last.sent) = 1

\* C5: a pipeline call in which the analyzer fails returns the error and no
\* violation, adds or rewrites no entry of the cache, and learns no token:
\* the engine, the tokens to persist and the storage are as before.
C5_FailedBatchLeavesNoTrace ==
    [][(last'.called /\ ~last.called /\ last'.err = "ai") =>
         /\ last'.out = <<>>
         /\ \A j \in DOMAIN cache'.lru : \E k \in DOMAIN cache.lru :
               cache'.lru[j] = cache.lru[k]
         /\ engine' = engine
         /\ pending' = pending
         /\ storage' = storage]_vars

\* A batch failed at the analyzer although one of its messages was answered
\* from the cache and the result withheld would have been learned from.
C5_Witness ==
    /\ last.called /\ last.err = "ai" /\ Len(last.messages) = 2
    /\ last.hits # {} /\ last.queued # <<>> /\ cache.lru # <<>>

\* The triggers the engine finds for message i of the call observed in obs,
\* none when the filter is skipped.
LocalTriggers(obs, i) ==
    IF obs.skip THEN {} ELSE FindTriggers(obs.engine, Truncate(obs.messages[i].Data))

\* Queue positions of the call observed in obs whose message has no result
\* under its id among those the analyzer returned.
Unanswered(obs) ==
    {k \in DOMAIN obs.queued : obs.messages[obs.queued[k]].ID \notin obs.ids}

\* C6: in a pipeline call that returns without error, a queued message for
\* which the analyzer returned no result under its id gets, at its input
\* index, the decision Suspicious, "missing AI result", confidence 0, with
\* the triggers found locally and the ids of the message; the decision is
\* counted, dispatched to the callback of its status, and written to the
\* cache under the message's data (it is the front entry when the message is
\* the last one queued).
C6_MissingResultFallback ==
    [][(last'.called /\ ~last.called /\ last'.err = "") =>
         /\ processed'[StatusSuspicious] >=
               processed[StatusSuspicious] + Cardinality(Unanswered(last'))
         /\ \A k \in Unanswered(last') :
              LET i   == last'.queued[k]
                  m   == Prepared(last'.messages[i])
                  res == last'.out[i].AIResult
              IN  /\ last'.out[i].Message = m
                  /\ last'.out[i].Triggered = (LocalTriggers(last', i) # {})
                  /\ res.StatusCode = StatusSuspicious
                  /\ res.Reason = "missing AI result"
                  /\ res.Confidence = 0
                  /\ Range(res.TriggerTokens) = LocalTriggers(last', i)
                  /\ Len(res.TriggerTokens) = Cardinality(LocalTriggers(last', i))
                  /\ res.MessageID = m.ID
                  /\ res.ViolatorUserID = m.User
                  /\ \E n \in DOMAIN last'.trace :
                        /\ last'.trace[n].kind = "callback"
                        /\ last'.trace[n].name = "OnSuspicious"
                        /\ last'.trace[n].arg.AIResult = res
                  /\ (/\ k = Len(last'.queued)
                      /\ m.Data # <<>>
                      /\ estimateEntrySizeBytes(m.Data, res) <= cacheMaxBytes)
                        => /\ cache'.lru # <<>>
                           /\ cache'.lru[1].key = m.Data
                           /\ cache'.lru[1].value = res
                           /\ cache'.lru[1].expiresAt = now + negativeCacheTTL]_vars

\* A batch of two queued messages with local triggers: the analyzer answered
\* the first and returned nothing under the id of the second.
C6_Witness ==
    /\ last.called /\ last.err = "" /\ Len(last.queued) = 2
    /\ Unanswered(last) = {2}
    /\ last.out[last.queued[2]].Triggered
    /\ last.out[last.queued[2]].AIResult.Reason = "missing AI result"

\* The input indices of the call observed whose message goes to the AI: it
\* has a trigger, or the filter is skipped, and it missed the cache.
RECURSIVE ExpectedFrom(_)
ExpectedFrom(i) ==
    IF i > Len(last.messages) THEN <<>>
    ELSE IF (last.skip \/ ~NoTrigger(i)) /\ i \notin last.hits
         THEN <<Prepared(last.messages[i])>> \o ExpectedFrom(i + 1)
         ELSE ExpectedFrom(i + 1)

Expected == ExpectedFrom(1)

\* The calls that submit the first n expected messages one by one.
OneByOne(n) == [k \in 1..n |-> <<Expected[k]>>]

\* C7 as stated: the analyzer receives exactly the expected messages, in one
\* AnalyzeBatch call or in one Analyze call per message.
C7_AsStated ==
    Passed =>
        last.sent = IF Expected = <<>> THEN <<>>
                    ELSE IF cfg.batch THEN <<Expected>>
                    ELSE OneByOne(Len(Expected))

\* C7: the messages that go to the AI are those with a trigger (all, when
\* the filter is skipped) that miss the cache, truncated and in input order;
\* a batching analyzer receives them in a single AnalyzeBatch call, any other
\* in one Analyze call per message that stop after the first call that
\* fails; no call is made when no message is queued or validation fails.
C7_AnalyzerReceivesQueue ==
    last.called =>
        IF ~Passed \/ Expected = <<>> THEN last.sent = <<>>
        ELSE IF cfg.batch THEN last.sent = <<Expected>>
        ELSE \E n \in 1..Len(Expected) :
                /\ last.sent = OneByOne(n)
                /\ last.err = "" => n = Len(Expected)

\* Without batching, the first of two queued messages failed, and the second
\* was not submitted.
C7_Witness ==
    /\ last.called /\ ~cfg.batch /\ last.err = "ai"
    /\ Len(Expected) = 2 /\ Len(last.sent) = 1

\* C8: with the trigger filter skipped, every message is looked up in the
\* cache and answered from it or queued for the AI, also a message without
\* trigger; no returned violation is marked triggered, and the fallback for a
\* message the analyzer left unanswered carries no local trigger.
C8_SkipFilterBypassesEngine ==
    (Passed /\ last.skip) =>
        /\ last.lookedUp = {}
        /\ \A i \in Indices :
              /\ i \in last.gets
              /\ (i \in last.hits) # (i \in Range(last.queued))
              /\ last.err = "" =>
                    /\ ~last.out[i].Triggered
                    /\ (\E k \in Unanswered(last) : last.queued[k] = i) =>
                          last.out[i].AIResult.TriggerTokens = <<>>

\* With the filter skipped and tokens in the engine, a message without
\* trigger went to the AI and a message with a trigger was returned as not
\* triggered.
C8_Witness ==
    /\ Passed /\ last.skip /\ last.err = "" /\ last.engine.tokens # {}
    /\ \E i, j \in Indices :
          /\ NoTrigger(i) /\ i \in Range(last.queued)
          /\ ~NoTrigger(j) /\ ~last.out[j].Triggered

----------------------------------------------------------------------------
(* Properties of the dispatch of one recorded decision.                    *)

\* The invocations of the given kind in the trace of the call observed.
Invoked(kind) == SelectSeq(last.trace, LAMBDA inv : inv.kind = kind)

\* The callback the specification's table assigns to the status codes 1..6.
CallbackTable ==
    <<"OnClean", "OnNonCriticalAbuse", "OnSuspicious", "OnCommercialOffPlatform",
      "OnDangerousIllegal", "OnCritical">>

\* C9: for a recorded decision with status code s in 1..6 exactly one method
\* of the callback surface is invoked, once, and it is the s-th of OnClean,
\* OnNonCriticalAbuse, OnSuspicious, OnCommercialOffPlatform,
\* OnDangerousIllegal, OnCritical.
C9_CallbackTable ==
    (last.called /\ Len(last.out) = 1 /\ last.out[1].AIResult.StatusCode \in 1..6) =>
        /\ Len(Invoked("callback")) = 1
        /\ Invoked("callback")[1].name = CallbackTable[last.out[1].AIResult.StatusCode]

\* The event the specification assigns to a status code.
EventTable(code) ==
    IF code \in 1..6
    THEN <<EventAllowClean, EventMarkAbuse, EventHumanReview, EventAutoRestrict,
           EventAutoBanEscalate, EventCriticalEscalate>>[code]
    ELSE EventHumanReview

\* C10: for a recorded decision the handlers invoked are those subscribed to
\* one event, the s-th of allow_clean, mark_abuse, human_review,
\* auto_restrict, auto_ban_escalate, critical_escalate for a status code s
\* in 1..6 and human_review for any other code.
C10_EventTable ==
    (last.called /\ Len(last.out) = 1) =>
        LET event == EventTable(last.out[1].AIResult.StatusCode) IN
        /\ Len(Invoked("handler")) = Len(events[event])
        /\ \A n \in DOMAIN Invoked("handler") :
              /\ Invoked("handler")[n].name = event
              /\ Invoked("handler")[n].handler = events[event][n]

\* The dispatch trace of the decision recorded has the steps in their order:
\* one fixed callback, OnProcessed if configured, then the handlers
\* subscribed to the event of the status, in registration order.
InDispatchOrder ==
    LET code     == last.out[1].AIResult.StatusCode
        handlers == events[eventNameFromCode(IF Valid(code) THEN code
                                             ELSE StatusSuspicious)]
        p        == IF cfg.allCb THEN 1 ELSE 0
    IN  /\ Len(last.trace) = 1 + p + Len(handlers)
        /\ last.trace[1].kind = "callback"
        /\ cfg.allCb => last.trace[2].kind = "processed"
        /\ \A k \in DOMAIN handlers :
              /\ last.trace[1 + p + k].kind = "handler"
              /\ last.trace[1 + p + k].handler = handlers[k]

\* C11: for every recorded decision the dispatch trace is the fixed callback
\* of the status, then OnProcessed if configured, then every handler
\* subscribed to the mapped event in registration order, each step present
\* also when an earlier callback or handler returned an error.
C11_DispatchOrder ==
    (last.called /\ Len(last.out) = 1) => InDispatchOrder

----------------------------------------------------------------------------
(* Properties of the statuses, of auto-learn and of the metrics.           *)

\* C12: every decision a pipeline call returns and dispatches carries a
\* status in 1..6, and a result that came from the analyzer with a status
\* outside 1..6 is returned and dispatched as HumanReview.
C12_StatusCoercedToHumanReview ==
    (last.called /\ last.err = "" /\ last.messages # <<>>) =>
        /\ \A i \in Indices :
              /\ Valid(last.out[i].AIResult.StatusCode)
              /\ \A r \in RawFor(i) :
                    ~Valid(r.StatusCode) =>
                        last.out[i].AIResult.StatusCode = StatusHumanReview
        /\ \A n \in DOMAIN last.trace :
              /\ Valid(last.trace[n].arg.AIResult.StatusCode)
              /\ \A i \in Indices : \A r \in RawFor(i) :
                    (/\ ~Valid(r.StatusCode)
                     /\ last.trace[n].arg.AIResult.MessageID = last.messages[i].ID
                     /\ last.trace[n].arg.AIResult.Reason = r.Reason)
                        => last.trace[n].arg.AIResult.StatusCode = StatusHumanReview

\* The tokens a step adds to the engine or hands to a persistence goroutine.
Taught == (engine'.tokens \ engine.tokens) \cup BagToSet(pending' (-) pending)

\* The normalized forms of the trigger tokens of a result.
NormalizedTokens(result) ==
    {normalizeToken(result.TriggerTokens[j]) : j \in DOMAIN result.TriggerTokens}

\* A pipeline call is made in this step.
CallStep == last = NoCall /\ last'.called

\* C13: auto-learn adds a token to the engine or hands it to storage only
\* from a result whose status is at least 4 (Suspicious); a result with
\* status 1, 2 or 3 teaches nothing, whatever its confidence.
C13_LearnOnlyFromSuspiciousUp ==
    [][CallStep =>
          \A tok \in Taught :
              \E k \in DOMAIN last'.raw :
                  /\ last'.raw[k].res.StatusCode >= StatusSuspicious
                  /\ tok \in NormalizedTokens(last'.raw[k].res)]_vars

\* The analyzer's results of the call made in this step that reach the
\* confidence threshold.
Confident == {last'.raw[k].res : k \in {k \in DOMAIN last'.raw :
                 last'.raw[k].res.Confidence >= confidenceThreshold}}

\* C14: every token auto-learn adds to the engine or hands to storage is the
\* trimmed, lowercased, non-empty form, of length at most
\* max_learn_token_length, of a trigger token of a result the analyzer gave
\* in this call with confidence at least the threshold, and it is handed to
\* storage exactly when it is new to the engine; a result below the threshold
\* teaches nothing; every token of a confident result that is non-empty and
\* not over-long is in the engine afterwards, also when an over-long token
\* precedes it.
C14_LearnedTokensAreGated ==
    [][CallStep =>
          /\ \A tok \in Taught :
                /\ tok # <<>>
                /\ Len(tok) <= maxLearnTokenLength
                /\ \E r \in Confident : tok \in NormalizedTokens(r)
          /\ Confident = {} => Taught = {}
          /\ engine'.tokens \ engine.tokens = BagToSet(pending' (-) pending)
          /\ \A r \in Confident : \A tok \in NormalizedTokens(r) :
                (tok # <<>> /\ Len(tok) <= maxLearnTokenLength)
                    => tok \in engine'.tokens]_vars

\* A call returned whose confident result named an over-long token and then a
\* token that fits: the second was learned and awaits its write, the first
\* was not.
C14_Witness ==
    /\ last.called /\ last.err = ""
    /\ \E k \in DOMAIN last.raw :
          /\ last.raw[k].res.Confidence >= confidenceThreshold
          /\ last.raw[k].res.TriggerTokens = <<tLong, tDash>>
    /\ tDash \notin last.engine.tokens
    /\ tDash \in engine.tokens
    /\ tDash \in BagToSet(pending)
    /\ normalizeToken(tLong) \notin engine.tokens

\* The tokens the analyzer's results can teach.
LearnableTokens ==
    {normalizeToken(l[j]) : j \in 1..2, l \in {l \in LearnTokenLists : Len(l) >= 2}}
    \cup {normalizeToken(l[1]) : l \in LearnTokenLists}

\* The call that just returned added tok to the engine.
NewlyLearned(tok) ==
    last.called /\ tok \in engine.tokens /\ tok \notin last.engine.tokens

\* C15: with auto-learn enabled and a storage that accepts the writes, every
\* token a call newly added to the engine is eventually in storage, although
\* the call returned while the write was still outstanding; the step of the
\* persistence goroutine, landed or failed, leaves what the call returned and
\* everything but the storage and the outstanding writes as they were.
C15_LearnedTokenIsPersisted ==
    /\ \A tok \in LearnableTokens :
          (~cfg.writeFails /\ NewlyLearned(tok)) ~> (tok \in storage)
    /\ [][(pending' # pending /\ last' = last /\ last = NoCall) =>
             /\ prev' = prev
             /\ engine' = engine
             /\ cache' = cache
             /\ processed' = processed]_vars

\* A call has returned a decision and a token it taught the engine is still
\* to be written to a storage that accepts writes.
C15_Witness ==
    /\ ~cfg.writeFails
    /\ last.called /\ last.err = "" /\ Len(last.out) = 1
    /\ \E tok \in LearnableTokens :
          /\ NewlyLearned(tok)
          /\ tok \in BagToSet(pending)
          /\ tok \notin storage

\* Texts that contain tok: the token alone and the token between two words.
TextsWith(tok) == {tok, <<"x", " ">> \o tok \o <<" ", "x">>}

\* FindTriggers returns tok for the texts that contain it.
Visible(tok) == \A text \in TextsWith(tok) : tok \in FindTriggers(engine, text)

\* tok is a run of letters, digits and underscores, or holds a space.
Matchable(tok) == ContainsSpaceRune(tok) \/ \A i \in DOMAIN tok : IsWordRune(tok[i])

\* C16 as stated: a token learn added to the engine is returned by
\* FindTriggers on a text containing it, right after the call and for as
\* long as its storage write is outstanding.
C16_AsStated ==
    \A tok \in LearnableTokens :
        (NewlyLearned(tok) \/ tok \in BagToSet(pending)) => Visible(tok)

\* C16: a token learn added to the engine that is a run of letters, digits
\* and underscores, or that holds a space, is returned by FindTriggers on a
\* text containing it as soon as the call has made it, and stays so while its
\* storage write is outstanding, lands or fails, up to the step in which a
\* sync replaces the tokens of the engine.
C16_LearnedTokenVisibleUntilSync ==
    /\ [](\A tok \in LearnableTokens :
             (NewlyLearned(tok) /\ Matchable(tok)) => Visible(tok))
    /\ [][\A tok \in LearnableTokens :
             (/\ tok \in engine.tokens
              /\ Matchable(tok)
              /\ Visible(tok)
              /\ ~(last = NoCall /\ last' = last /\ pending' = pending))
                 => Visible(tok)']_vars

\* A learned token is returned by FindTriggers although its storage write
\* failed: it is in the engine, not in storage, and no write is outstanding.
C16_Witness ==
    /\ last = NoCall
    /\ pending = EmptyBag
    /\ \E tok \in LearnableTokens :
          /\ tok \in engine.tokens
          /\ tok \notin storage
          /\ Matchable(tok)
          /\ Visible(tok)

\* The number of decisions with status s that the call made in this step
\* returned.
Decided(s) == Cardinality({i \in DOMAIN last'.out : last'.out[i].AIResult.StatusCode = s})

\* C17: a pipeline call that returns its decisions has incremented, for each
\* of them, exactly the metric counter of the decision's status code, once:
\* each of the six counters grows by the number of decisions of its status.
C17_CounterOfItsStatus ==
    [][(CallStep /\ last'.err = "") =>
          \A s \in 1..6 : processed'[s] = processed[s] + Decided(s)]_vars

\* C18: the Violation handed to the fixed callback and to OnProcessed is the
\* decision record the call returns for the same message: the same message
\* (id, dialog id, user and data), the same AI result, the same triggered
\* flag.
C18_CallbackGetsReturnedRecord ==
    (last.called /\ last.err = "") =>
        \A n \in DOMAIN last.trace :
            last.trace[n].kind \in {"callback", "processed"} =>
                \E i \in Indices : last.trace[n].arg = last.out[i]

----------------------------------------------------------------------------
(* Properties of the trigger engine.                                       *)

\* The maximal runs of letters, digits and underscores of s.
WordRuns(s) ==
    {SubSeq(s, ij[1], ij[2]) : ij \in
        {ij \in (DOMAIN s) \X (DOMAIN s) :
            /\ ij[1] <= ij[2]
            /\ \A k \in ij[1]..ij[2] : IsWordRune(s[k])
            /\ ij[1] = 1 \/ ~IsWordRune(s[ij[1] - 1])
            /\ ij[2] = Len(s) \/ ~IsWordRune(s[ij[2] + 1])}}

\* The stored tokens that are a word of the lowercased text, and the stored
\* phrases that are a substring of it.
ExpectedTriggers(st, text) ==
    {t \in st.tokens :
        \/ t \in WordRuns(ToLower(text))
        \/ ContainsSpaceRune(t) /\ Contains(ToLower(text), t)}

\* C19: after any sequence of AddToken, RemoveToken, ReplaceAll and Clear,
\* FindTriggers(text) returns exactly the stored tokens that equal a maximal
\* run of letters, digits and underscores of the lowercased text, together
\* with the stored phrases that are a substring of the lowercased text; the
\* stored tokens are trimmed and lowercased, so the case of neither side
\* matters; an empty text or an empty token set gives the empty result; and
\* FindTriggers leaves the engine as it was.
C19_FindTriggersResult ==
    /\ [](/\ \A t \in engine.tokens : t # <<>> /\ t = normalizeToken(t)
          /\ last.op = "FindTriggers" =>
                /\ last.ret = ExpectedTriggers(engine, last.arg)
                /\ (last.arg = <<>> \/ engine.tokens = {}) => last.ret = {})
    /\ [][last'.op = "FindTriggers" => engine' = engine]_vars

\* A search in mixed case found a stored word and a stored phrase, with a
\* second phrase and a token with a non-word character stored as well.
C19_Witness ==
    /\ last.op = "FindTriggers"
    /\ last.arg = <<"B", "a", "d", " ", "a", " ", "B">>
    /\ last.ret = {<<"b", "a", "d">>, <<"a", " ", "b">>}
    /\ <<"a", "-", "b">> \in engine.tokens
    /\ <<"b", " ", "a">> \notin engine.tokens
    /\ Len(engine.phrases) = 2

\* The token the last operation was called with, normalized.
Normalized == normalizeToken(last'.arg)

\* C20: AddToken(s) returns true exactly when the trimmed, lowercased s is
\* non-empty and absent, and then s joins the tokens (and the end of the
\* phrase list if it holds a space) and Count grows by one; RemoveToken(s)
\* returns true exactly when the normalized s is present, and then it leaves
\* the tokens, Count shrinks by one and the other phrases keep their order;
\* when false is returned the tokens and the phrase list are unchanged.
C20_AddRemoveResult ==
    [][/\ last'.op = "AddToken" =>
             /\ last'.ret = (Normalized # <<>> /\ Normalized \notin engine.tokens)
             /\ last'.ret =>
                   /\ engine'.tokens = engine.tokens \cup {Normalized}
                   /\ Count(engine') = Count(engine) + 1
                   /\ engine'.phrases = IF ContainsSpaceRune(Normalized)
                                        THEN engine.phrases \o <<Normalized>>
                                        ELSE engine.phrases
             /\ ~last'.ret => engine' = engine
       /\ last'.op = "RemoveToken" =>
             /\ last'.ret = (Normalized \in engine.tokens)
             /\ last'.ret =>
                   /\ engine'.tokens = engine.tokens \ {Normalized}
                   /\ Count(engine') = Count(engine) - 1
                   /\ engine'.phrases =
                          SelectSeq(engine.phrases, LAMBDA q : q # Normalized)
             /\ ~last'.ret => engine' = engine]_vars

\* A phrase was removed from between two others, which are left in their
\* order.
C20_Witness ==
    /\ last.op = "RemoveToken"
    /\ last.ret
    /\ normalizeToken(last.arg) = <<"b", " ", "a">>
    /\ engine.phrases = <<<<"a", " ", "b">>, <<"a", " ", "a">>>>

\* t holds a whitespace character.
HasWhitespace(t) == \E i \in DOMAIN t : IsSpace(t[i])

\* C21 as stated: the phrases are the stored tokens that hold whitespace, and
\* FindTriggers returns every stored token holding whitespace that the
\* lowercased text contains.
C21_AsStated ==
    /\ Range(engine.phrases) = {t \in engine.tokens : HasWhitespace(t)}
    /\ last.op = "FindTriggers" =>
          \A t \in engine.tokens :
              (HasWhitespace(t) /\ Contains(ToLower(last.arg), t)) => t \in last.ret

\* C21: the phrases are the stored tokens that hold a space character, each
\* listed once; FindTriggers returns every one of them that the lowercased
\* text contains, and never a stored token that holds another whitespace
\* character but no space.
C21_PhraseIffSpace ==
    /\ Range(engine.phrases) = {t \in engine.tokens : ContainsSpaceRune(t)}
    /\ Cardinality(Range(engine.phrases)) = Len(engine.phrases)
    /\ last.op = "FindTriggers" =>
          /\ \A t \in engine.tokens :
                (ContainsSpaceRune(t) /\ Contains(ToLower(last.arg), t)) => t \in last.ret
          /\ \A t \in last.ret : HasWhitespace(t) => ContainsSpaceRune(t)

\* A phrase was found across two words of the text, and a text that is a
\* stored token with a tab would not return it.
C21_Witness ==
    /\ last.op = "FindTriggers"
    /\ last.arg = <<"b", "a", " ", "a", "b">>
    /\ last.ret = {<<"a", " ", "a">>}
    /\ tTab \in engine.tokens
    /\ tTab \notin FindTriggers(engine, tTab)

----------------------------------------------------------------------------
(* Properties of the trigger engine under concurrency.                     *)

\* What the operations of the goroutines have returned so far.
Returns == UNION {Range(tasks[w].rets) : w \in DOMAIN tasks}

\* The goroutines that hold the write lock, and those that hold a read lock.
Writing == {w \in DOMAIN tasks : tasks[w].pc \in {"lookup", "mutate", "swap", "unlock"}}
Reading == {w \in DOMAIN tasks : tasks[w].pc \in {"pass1", "pass2", "runlock"}}

\* C22: ReplaceAll swaps the state in whole: once it has assigned the state
\* and until it releases the lock, the tokens are the normalized, non-empty
\* tokens of its list, each once, and the phrases those of them that hold a
\* space (after Clear there is none of either); and every FindTriggers that
\* runs while other goroutines replace or clear the state returns what
\* FindTriggers gives on one single state the engine held during its lookup,
\* never a combination of two of them.
C22_SwapIsAtomic ==
    /\ \A r \in Returns :
          r.op = "FindTriggers" =>
              \E st \in r.seen : r.ret = FindTriggers(st, r.arg)
    /\ \A w \in DOMAIN tasks :
          tasks[w].pc = "unlock" =>
              IF Current(w).op = "ReplaceAll"
              THEN /\ engine.tokens =
                          {normalizeToken(Current(w).arg[j]) : j \in DOMAIN Current(w).arg}
                              \ {<<>>}
                   /\ Range(engine.phrases) = {t \in engine.tokens : ContainsSpaceRune(t)}
                   /\ Len(engine.phrases) = Cardinality(Range(engine.phrases))
              ELSE engine.tokens = {} /\ engine.phrases = <<>>

\* A lookup is in its second pass while a ReplaceAll that has built its state
\* waits for the lock, and an earlier lookup of the same goroutine has
\* returned the phrase of the state before the swaps.
C22_Witness ==
    /\ \E w \in DOMAIN tasks :
          /\ tasks[w].pc = "pass2"
          /\ Len(tasks[w].rets) = 1
          /\ tasks[w].rets[1].ret = {<<"a", " ", "b">>}
    /\ \E w \in DOMAIN tasks : tasks[w].pc = "lock" /\ Current(w).op = "ReplaceAll"

\* Every goroutine has run its whole program.
AllDone == \A w \in DOMAIN tasks : tasks[w].prog = <<>>

\* The number of calls of op that returned true.
Succeeded(op) ==
    Cardinality({wk \in {wk \in (DOMAIN tasks) \X (1..3) : wk[2] <= Len(tasks[wk[1]].rets)} :
                    /\ tasks[wk[1]].rets[wk[2]].op = op
                    /\ tasks[wk[1]].rets[wk[2]].ret = TRUE})

\* C23: with goroutines that each run FindTriggers, AddToken("x") and
\* RemoveToken("x") on an engine holding one other token, under every
\* interleaving no goroutine reads or writes the token map while another
\* writes it (the condition under which the Go runtime aborts), a goroutine
\* that has not finished can always take a step or is waiting for a lock
\* that its holder can release, Count() is 1 or 2 at every moment, and when
\* all have finished the successful AddToken calls are as many as the
\* successful RemoveToken calls and Count() is 1.
C23_WorkersAreSerialized ==
    /\ Cardinality(Writing) <= 1
    /\ Writing # {} => Reading = {}
    /\ ~AllDone => ENABLED NextWorkers
    /\ Count(engine) \in {1, 2}
    /\ \A r \in Returns : r.op = "FindTriggers" => r.ret = {tOther}
    /\ AllDone =>
          /\ Count(engine) = 1
          /\ Succeeded("AddToken") = Succeeded("RemoveToken")

\* All the goroutines have finished, one of them found "x" already added and
\* one found it already removed.
C23_Witness ==
    /\ AllDone
    /\ Len(tasks) = NumWorkers
    /\ [op |-> "AddToken", arg |-> tX, ret |-> FALSE, seen |-> {}] \in Returns
    /\ [op |-> "RemoveToken", arg |-> tX, ret |-> FALSE, seen |-> {}] \in Returns
    /\ Succeeded("AddToken") >= 1

----------------------------------------------------------------------------
(* Properties of Run and SyncOnce.                                         *)

\* The tokens of a list as ReplaceAll keeps them: normalized, each once,
\* without the empty ones.
Kept(list) == {normalizeToken(list[j]) : j \in DOMAIN list} \ {<<>>}

\* C24: Run returns at once, with the error and without starting its loop,
\* when validate or the initial SyncOnce fails, and enters the loop
\* otherwise; in the loop every tick is answered by a SyncOnce (unless Run
\* returns first), a failing one logs a warning, leaves the engine alone and
\* stays in the loop; Run leaves the loop only with the context cancelled,
\* returning the context's error, and once the context is cancelled it does
\* return.
C24_RunLoop ==
    /\ [][/\ (tasks[1].pc = "idle" /\ tasks'[1].pc # "idle") =>
                IF validate # ""
                THEN /\ tasks'[1].pc = "returned"
                     /\ tasks'[1].err = validate
                     /\ engine' = engine
                ELSE /\ last'.op = "SyncOnce"
                     /\ IF last'.ret # ""
                        THEN /\ tasks'[1].pc = "returned"
                             /\ tasks'[1].err = last'.ret
                             /\ engine' = engine
                        ELSE /\ tasks'[1].pc = "loop"
                             /\ tasks'[1].err = ""
                             /\ engine'.tokens = Kept(last'.arg.tokens)
          /\ (tasks[1].pc = "loop" /\ tasks[1].tick /\ ~tasks'[1].tick) =>
                /\ last'.op = "SyncOnce"
                /\ tasks'[1].pc = "loop"
                /\ IF last'.ret # ""
                   THEN /\ engine' = engine
                        /\ tasks'[1].warns =
                              IF tasks[1].warns < MaxWarns THEN tasks[1].warns + 1
                              ELSE MaxWarns
                   ELSE /\ engine'.tokens = Kept(last'.arg.tokens)
                        /\ tasks'[1].warns = tasks[1].warns
          /\ (tasks[1].pc = "loop" /\ tasks'[1].pc # "loop") =>
                /\ tasks[1].ctx = "canceled"
                /\ tasks'[1].pc = "returned"
                /\ tasks'[1].err = Canceled
          /\ tasks[1].pc = "returned" =>
                /\ tasks'[1].pc = "returned"
                /\ tasks'[1].err = tasks[1].err]_vars
    /\ (tasks[1].pc = "loop" /\ tasks[1].ctx = "canceled") ~> (tasks[1].pc = "returned")
    /\ (tasks[1].pc = "loop" /\ tasks[1].tick)
          ~> (~tasks[1].tick \/ tasks[1].pc = "returned")

\* Run has returned the context's error after a periodic sync had failed and
\* been logged.
C24_Witness ==
    /\ tasks[1].pc = "returned"
    /\ tasks[1].err = Canceled
    /\ tasks[1].warns >= 1
    /\ last.op = "SyncOnce"
    /\ last.ret = ""

\* C25: a SyncOnce returns nil exactly when there is a storage and GetTokens
\* succeeded, and then the engine holds the tokens GetTokens returned,
\* normalized, each once and without the empty ones, and no other (a token
\* added in memory that the storage does not hold is gone); otherwise it
\* returns the error (of GetTokens, or "core: storage is nil") and the engine
\* is as it was.
C25_SyncOnceResult ==
    [][(last'.op = "SyncOnce" /\ (last' # last \/ engine' # engine)) =>
          /\ last'.before = engine.tokens
          /\ IF cfg.storage /\ last'.arg.err = ""
             THEN /\ last'.ret = ""
                  /\ Range(last'.arg.tokens) = storage
                  /\ engine'.tokens = Kept(last'.arg.tokens)
                  /\ Range(engine'.phrases) =
                        {t \in engine'.tokens : ContainsSpaceRune(t)}
             ELSE /\ last'.ret = IF cfg.storage THEN last'.arg.err
                                 ELSE "core: storage is nil"
                  /\ last'.ret # ""
                  /\ engine' = engine]_vars

\* A SyncOnce has replaced an engine that held the token "x" added in memory
\* by the one token of a storage holding it in two spellings next to a blank
\* token.
C25_Witness ==
    /\ last.op = "SyncOnce"
    /\ last.ret = ""
    /\ tX \in last.before
    /\ Len(last.arg.tokens) = 3
    /\ engine.tokens = {<<"b", "a", "d">>}

----------------------------------------------------------------------------
(* Properties of On and of the dispatch to handlers.                       *)

\* How many times h occurs in the sequence q.
Occurrences(q, h) == Cardinality({k \in DOMAIN q : q[k] = h})

\* Every goroutine of the bus has run its whole program.
BusDone == \A w \in DOMAIN tasks : tasks[w].prog = <<>>

\* C26: On with a nil handler returns an error and changes no subscription;
\* the subscriptions change only by an On with a non-nil handler that holds
\* the write lock alone, and then by that handler appended to the handlers of
\* its event; while goroutines remain, one of them can always take a step,
\* also when a handler calls On from within a dispatch; a dispatch invokes
\* exactly the handlers subscribed when it took the read lock, in order, and
\* not the one a handler of its own subscribes meanwhile; and the next
\* dispatch of the event by the same goroutine invokes those of the first
\* again and, once for every registering handler the first invoked, the
\* handler "h1" these subscribed.
C26_OnAndDispatch ==
    /\ [](/\ ~BusDone => ENABLED NextDispatch
          /\ \A w \in DOMAIN tasks :
                /\ tasks[w].pc = "call" \/ tasks[w].nested =>
                      /\ tasks[w].handlers = tasks[w].seen
                      /\ Len(tasks[w].trace) <= Len(tasks[w].handlers)
                      /\ tasks[w].trace = SubSeq(tasks[w].handlers, 1, Len(tasks[w].trace))
                /\ \A k \in DOMAIN tasks[w].rets :
                      tasks[w].rets[k].op = "dispatchEvent" =>
                          tasks[w].rets[k].ret = tasks[w].rets[k].seen
                /\ (/\ Len(tasks[w].rets) = 2
                    /\ tasks[w].rets[1].op = "dispatchEvent"
                    /\ tasks[w].rets[2].op = "dispatchEvent"
                    /\ tasks[w].rets[1].arg = tasks[w].rets[2].arg) =>
                      /\ Len(tasks[w].rets[1].ret) <= Len(tasks[w].rets[2].ret)
                      /\ tasks[w].rets[1].ret =
                            SubSeq(tasks[w].rets[2].ret, 1, Len(tasks[w].rets[1].ret))
                      /\ Occurrences(tasks[w].rets[2].ret, "h1") =
                            Occurrences(tasks[w].rets[1].ret, "h1")
                            + Occurrences(tasks[w].rets[1].ret, RegisteringHandler))
    /\ [][/\ \A w \in DOMAIN tasks :
                (/\ tasks[w].pc = "idle" /\ tasks[w].prog # <<>>
                 /\ Current(w).op = "On"
                 /\ tasks'[w] # tasks[w]) =>
                    IF Current(w).arg[2] = NilHandler
                    THEN /\ events' = events
                         /\ tasks'[w].pc = "idle"
                         /\ tasks'[w].prog = Tail(tasks[w].prog)
                         /\ tasks'[w].rets[Len(tasks'[w].rets)].ret = "core: handler is nil"
                    ELSE /\ events' = events
                         /\ tasks'[w].pc = "lock"
          /\ \A w \in DOMAIN tasks :
                (/\ tasks[w].pc = "unlock" /\ ~tasks[w].nested
                 /\ tasks'[w] # tasks[w]) =>
                    /\ tasks'[w].rets[Len(tasks'[w].rets)].ret = ""
                    /\ \E k \in DOMAIN events[tasks[w].on[1]] :
                          events[tasks[w].on[1]][k] = tasks[w].on[2]
          /\ events' # events =>
                \E w \in DOMAIN tasks :
                    /\ tasks[w].pc = "append"
                    /\ mu.events = [readers |-> 0, writer |-> TRUE]
                    /\ tasks[w].on[2] # NilHandler
                    /\ events' = [events EXCEPT ![tasks[w].on[1]] =
                                      Append(@, tasks[w].on[2])]]_vars

\* A dispatch invoked the registering handler alone; the handler "h2" was
\* subscribed by another goroutine, after it had passed a nil handler, before
\* the registering handler subscribed "h1"; the next dispatch invoked the
\* three of them.
C26_Witness ==
    /\ Len(tasks[1].rets) = 2
    /\ tasks[1].rets[1].ret = <<RegisteringHandler>>
    /\ tasks[1].rets[2].ret = <<RegisteringHandler, "h2", "h1">>
    /\ Len(tasks[2].rets) = 2
    /\ tasks[2].rets[1].ret = "core: handler is nil"
    /\ events[EventAllowClean] = <<RegisteringHandler, "h2", "h1", "h1">>

----------------------------------------------------------------------------
(* Properties of the negative-result cache.                                *)

\* The sum of the sizes recorded in the entries of a list.
RECURSIVE SumSizes(_)
SumSizes(lru) ==
    IF lru = <<>> THEN 0 ELSE Head(lru).sizeBytes + SumSizes(Tail(lru))

\* The entries of a list without the one of key.
Without(lru, key) == SelectSeq(lru, LAMBDA e : e.key # key)

\* C27: after every call the keys of the map are the keys of the list, each
\* once; the size recorded in an entry is len(key) + len(reason) + the sum of
\* the lengths of its trigger tokens + 128; total_bytes is the sum of the
\* recorded sizes and lies between 0 and the capacity.
C27_CacheAccounting ==
    /\ cache.items = {cache.lru[i].key : i \in DOMAIN cache.lru}
    /\ Cardinality(cache.items) = Len(cache.lru)
    /\ \A i \in DOMAIN cache.lru :
          cache.lru[i].sizeBytes =
              Len(cache.lru[i].key) + Len(cache.lru[i].value.Reason)
              + SumLen(cache.lru[i].value.TriggerTokens) + 128
    /\ cache.totalBytes = SumSizes(cache.lru)
    /\ 0 <= cache.totalBytes
    /\ cache.totalBytes <= cache.maxBytes

\* A Get has found the entry written last expired, at the back of the list,
\* and removed it; the entry in front of it stays and total_bytes is its
\* size.
C27_Witness ==
    /\ last.op = "Get"
    /\ last.key = prev.key
    /\ ~last.ret.ok
    /\ now > prev.at + prev.ttl
    /\ last.before = <<<<"b">>, last.key>>
    /\ KeysOf(cache) = <<<<"b">>>>
    /\ cache.totalBytes = 138

\* A step of Set, called directly or by setCachedNegative.
SetStep ==
    /\ last'.op \in {"Set", "setCachedNegative"}
    /\ last' # last \/ cache' # cache \/ prev' # prev

\* A step of Get.
GetStep ==
    /\ last'.op = "Get"
    /\ last' # last \/ cache' # cache

\* The call that returns in this step was given an empty key, a ttl that is
\* not positive or a value too large for the cache.
Refused ==
    \/ last'.key = <<>>
    \/ last'.ttl <= 0
    \/ Len(last'.key) + Len(last'.value.Reason) + SumLen(last'.value.TriggerTokens) + 128
          > cache.maxBytes

\* C28: a Set that stores its entry puts it at the front of the list and
\* keeps behind it the other entries in the order they had, dropping from the
\* back only, and only as many as it takes for total_bytes to be within the
\* capacity: the entry written stays, what stays is more recently used than
\* what goes, and one more entry would not have fitted.  A Get that hits
\* moves its entry to the front and keeps the order of the others.
C28_EvictsLeastRecentlyUsed ==
    [][/\ (SetStep /\ ~Refused
           /\ (last'.op = "setCachedNegative" => Valid(last'.value.StatusCode))) =>
              \E n \in 0..Len(Without(cache.lru, last'.key)) :
                 /\ Len(cache'.lru) = n + 1
                 /\ cache'.lru[1].key = last'.key
                 /\ Tail(cache'.lru) = SubSeq(Without(cache.lru, last'.key), 1, n)
                 /\ SumSizes(cache'.lru) <= cache.maxBytes
                 /\ n < Len(Without(cache.lru, last'.key)) =>
                       SumSizes(cache'.lru)
                       + Without(cache.lru, last'.key)[n + 1].sizeBytes > cache.maxBytes
       /\ (GetStep /\ last'.ret.ok) =>
              /\ Len(cache'.lru) = Len(cache.lru)
              /\ cache'.lru[1].key = last'.key
              /\ Tail(cache'.lru) = Without(cache.lru, last'.key)]_vars

\* A Set of the key "c" on a cache that held "a" at the front and "b" behind
\* it has evicted "b" and kept "a".
C28_Witness ==
    /\ last.op = "Set"
    /\ last.before = <<<<"a">>, <<"b">>>>
    /\ KeysOf(cache) = <<<<"c">>, <<"a">>>>

C30_UpsertAndReadBack ==
    [][/\ (SetStep /\ ~Refused
           /\ (last'.op = "setCachedNegative" => Valid(last'.value.StatusCode))) =>
              /\ cache'.lru # <<>>
              /\ cache'.lru[1] =
                    [key |-> last'.key, value |-> last'.value,
                     expiresAt |-> now + last'.ttl,
                     sizeBytes |-> estimateEntrySizeBytes(last'.key, last'.value)]
              /\ Cardinality({i \in DOMAIN cache'.lru : cache'.lru[i].key = last'.key}) = 1
              /\ last'.key \in cache'.items
              /\ last'.key \in cache.items => Len(cache'.lru) <= Len(cache.lru)
              /\ prev' = Written(last'.key, last'.value, last'.ttl, now)
       /\ (/\ GetStep
           /\ last'.key = prev.key
           /\ prev.key # <<>>
           /\ prev.ttl > 0
           /\ estimateEntrySizeBytes(prev.key, prev.value) <= cache.maxBytes
           /\ now <= prev.at + prev.ttl) =>
              last'.ret = [value |-> prev.value, ok |-> TRUE]]_vars

\* A Get at the very time of the expiry has returned the larger value that
\* the last Set wrote, for a key that was at the back of the list; an entry
\* with the small value is in the cache too.
C30_Witness ==
    /\ last.op = "Get"
    /\ last.ret.ok
    /\ last.key = prev.key
    /\ last.ret.value = vBig
    /\ now = prev.at + prev.ttl
    /\ last.before = <<<<"b">>, last.key>>
    /\ \E i \in DOMAIN cache.lru : cache.lru[i].value = vSmall

\* C31: RemoveExpired(now) leaves in the list exactly the entries with
\* now <= expires_at, unchanged and in the order they had, whatever stood
\* between them; the map holds their keys, and total_bytes has decreased by
\* the sizes of the entries deleted.
C31_RemoveExpiredFrame ==
    [][(last'.op = "RemoveExpired" /\ (last' # last \/ cache' # cache)) =>
          /\ cache'.lru = SelectSeq(cache.lru, LAMBDA e : ~(now > e.expiresAt))
          /\ cache'.items = {cache'.lru[i].key : i \in DOMAIN cache'.lru}
          /\ cache'.totalBytes =
                cache.totalBytes
                - SumSizes(SelectSeq(cache.lru, LAMBDA e : now > e.expiresAt))
          /\ cache'.maxBytes = cache.maxBytes]_vars

\* A sweep has deleted the expired entry at the front of the list and kept
\* the entry behind it, which had not expired.
C31_Witness ==
    /\ last.op = "RemoveExpired"
    /\ last.before = <<<<"a">>, <<"c">>>>
    /\ KeysOf(cache) = <<<<"c">>>>
    /\ cache.lru[1].expiresAt = now

\* ---------------------------------------------------------------------------
\* The negative cache janitor, step by step: New computes the interval and
\* starts the goroutine; the goroutine creates a ticker and sweeps on every
\* tick it receives. tasks[1] is the owner of the Core (the context it gives
\* to Run), tasks[2] the janitor goroutine. Time is counted in half minutes.
\* ---------------------------------------------------------------------------
Minute == 2
MaxJanitorTime == 4

\* time.Hour
defaultCacheTTL == 60 * Minute

\* Options.CacheTTL and Options.Logger as given to New.
JanitorOptions == [CacheTTL : {0 - 1, 0, 1, 2, 3}, logger : BOOLEAN]

\* New: c.negativeCacheTTL
cacheTTLOf(opt) == IF opt.CacheTTL > 0 THEN opt.CacheTTL ELSE defaultCacheTTL

\* startNegativeCacheJanitor: the interval of the ticker.
janitorInterval(ttl) == IF ttl > 0 /\ ttl < Minute THEN ttl ELSE Minute

\* logWarn: one more entry in the log when a logger is configured.
logWarn(warns) == IF cfg.logger THEN warns + 1 ELSE warns

Owner == [ctx |-> "live"]

Janitor(interval) ==
    [pc |-> "start", interval |-> interval, next |-> 0, tick |-> FALSE,
     sweeps |-> 0, panics |-> 0, warns |-> 0]

NoSweep == [op |-> "none", before |-> <<>>]

InitJanitor ==
    /\ cfg \in JanitorOptions
    /\ engine = EngineNew
    /\ cache = newNegativeResultCache
    /\ events = [ev \in EventNames |-> <<>>]
    /\ processed = [code \in 0..6 |-> 0]
    /\ storage = {}
    /\ pending = EmptyBag
    /\ now = 0
    /\ calls = 0
    /\ last = NoSweep
    /\ prev = NoWrite
    /\ mu = NoLocks
    /\ tasks = <<Owner, Janitor(janitorInterval(cacheTTLOf(cfg)))>>

\* The goroutine starts: time.NewTicker(interval).
JanitorStart ==
    /\ tasks[2].pc = "start"
    /\ tasks' = [tasks EXCEPT ![2].pc = "waiting", ![2].next = now + tasks[2].interval]
    /\ UNCHANGED <<cfg, engine, cache, events, processed, storage, pending, now, calls, last, prev, mu>>

\* The interval has passed: the ticker puts a tick into ticker.C, which holds
\* one; a tick that finds the channel full is dropped.
JanitorTickerFires ==
    /\ tasks[2].pc = "waiting"
    /\ now = tasks[2].next
    /\ tasks' = [tasks EXCEPT ![2].tick = TRUE, ![2].next = @ + tasks[2].interval]
    /\ UNCHANGED <<cfg, engine, cache, events, processed, storage, pending, now, calls, last, prev, mu>>

\* The loop takes the tick: RemoveExpired(time.Now()).
Sweep ==
    /\ tasks[2].pc = "waiting"
    /\ tasks[2].tick
    /\ cache' = RemoveExpired(cache, now)
    /\ last' = [op |-> "sweep", before |-> KeysOf(cache)]
    /\ tasks' = [tasks EXCEPT ![2].tick = FALSE, ![2].sweeps = @ + 1]
    /\ UNCHANGED <<cfg, engine, events, processed, storage, pending, now, calls, prev, mu>>

\* A janitor whose only recover is the one of the goroutine: a panic in a
\* sweep ends the loop and stops the ticker.
SweepPanicEndingJanitor ==
    /\ tasks[2].pc = "waiting"
    /\ tasks[2].tick
    /\ cache' \in {cache, RemoveExpired(cache, now)}
    /\ last' = [op |-> "panic", before |-> KeysOf(cache)]
    /\ tasks' = [tasks EXCEPT ![2].tick = FALSE, ![2].panics = @ + 1,
                              ![2].warns = logWarn(@), ![2].pc = "returned"]
    /\ UNCHANGED <<cfg, engine, events, processed, storage, pending, now, calls, prev, mu>>

\* The loop takes the tick and the sweep panics, before or after its
\* deletions: the deferred Unlock releases the cache, the recover of the
\* sweep's own function logs the panic, and the loop goes on.
SweepPanic ==
    /\ tasks[2].pc = "waiting"
    /\ tasks[2].tick
    /\ cache' \in {cache, RemoveExpired(cache, now)}
    /\ last' = [op |-> "panic", before |-> KeysOf(cache)]
    /\ tasks' = [tasks EXCEPT ![2].tick = FALSE, ![2].panics = @ + 1,
                              ![2].warns = logWarn(@)]
    /\ UNCHANGED <<cfg, engine, events, processed, storage, pending, now, calls, prev, mu>>

\* The pipeline caches a result under the configured TTL.
JanitorWrite ==
    /\ \E key \in {<<"a">>, <<"b">>} :
          cache' = CacheSet(cache, key, vSmall, cacheTTLOf(cfg), now)
    /\ cache' # cache
    /\ UNCHANGED <<cfg, engine, events, processed, storage, pending, now, calls, last, prev, mu, tasks>>

\* The owner cancels the context it gave to the Core's methods; the Core has
\* no other shutdown, and the janitor holds no context.
OwnerCancel ==
    /\ tasks[1].ctx = "live"
    /\ tasks' = [tasks EXCEPT ![1].ctx = "canceled"]
    /\ UNCHANGED <<cfg, engine, cache, events, processed, storage, pending, now, calls, last, prev, mu>>

\* Time passes, up to the next tick of a running ticker.
JanitorClock ==
    /\ now < MaxJanitorTime
    /\ tasks[2].pc = "waiting" => now < tasks[2].next
    /\ now' = now + 1
    /\ UNCHANGED <<cfg, engine, cache, events, processed, storage, pending, calls, last, prev, mu, tasks>>

NextJanitor ==
    \/ JanitorStart
    \/ JanitorTickerFires
    \/ Sweep
    \/ SweepPanic
    \/ JanitorWrite
    \/ OwnerCancel
    \/ JanitorClock

SpecJanitor == InitJanitor /\ [][NextJanitor]_vars

\* The goroutine is scheduled, the ticker runs and the clock advances.
SpecJanitorFair ==
    /\ SpecJanitor
    /\ WF_vars(JanitorStart)
    /\ WF_vars(JanitorTickerFires)
    /\ WF_vars(Sweep \/ SweepPanic)
    /\ WF_vars(JanitorClock)

\* C32: the janitor's ticker has the interval min(TTL, 1 minute) and fires
\* every interval; every tick the loop receives is followed by one
\* RemoveExpired(now); a sweep that panics leaves the janitor in its loop,
\* with one more log entry when a logger is configured, and the ticks after it
\* are swept as well.
C32_JanitorSweepsOnEveryTick ==
    /\ [](tasks[2].interval = IF cacheTTLOf(cfg) < Minute THEN cacheTTLOf(cfg) ELSE Minute)
    /\ [][tasks'[2].next # tasks[2].next /\ tasks[2].pc = "waiting" =>
             now = tasks[2].next /\ tasks'[2].next = now + tasks[2].interval
             /\ tasks'[2].tick]_vars
    /\ [][tasks'[2].sweeps # tasks[2].sweeps =>
             /\ tasks[2].tick /\ ~tasks'[2].tick
             /\ tasks'[2].sweeps = tasks[2].sweeps + 1
             /\ cache' = RemoveExpired(cache, now)]_vars
    /\ [][tasks'[2].panics # tasks[2].panics =>
             /\ tasks'[2].pc = "waiting"
             /\ tasks'[2].warns = tasks[2].warns + (IF cfg.logger THEN 1 ELSE 0)]_vars
    /\ [](tasks[2].pc # "returned")
    /\ \A n \in 0..MaxJanitorTime :
          (tasks[2].tick /\ tasks[2].sweeps + tasks[2].panics = n)
              ~> (tasks[2].sweeps + tasks[2].panics > n)
    /\ \A t \in 1..MaxJanitorTime :
          (tasks[2].pc = "waiting" /\ tasks[2].next = t) ~> (tasks[2].next > t)

\* After a sweep that panicked and was logged, a later tick has been swept
\* and the sweep has deleted an expired entry.
C32_Witness ==
    /\ tasks[2].panics > 0
    /\ tasks[2].warns > 0
    /\ last.op = "sweep"
    /\ Len(last.before) > Len(cache.lru)

\* C33: once the owner has canceled, the janitor ends and sweeps no more.
C33_JanitorEndsOnShutdown ==
    /\ [][tasks[1].ctx = "canceled" =>
             tasks'[2].sweeps = tasks[2].sweeps /\ tasks'[2].panics = tasks[2].panics]_vars
    /\ (tasks[1].ctx = "canceled") ~> (tasks[2].pc = "returned")

\* ---------------------------------------------------------------------------
\* The adapter's parseResults. A JSON object is a record of its fields; a
\* field is the set of the values it carries: empty when the object has no
\* such field, which json.Unmarshal leaves at the zero value.
\* ---------------------------------------------------------------------------
MaxItems == 2

WireStatuses == {0 - 1, 0, StatusHumanReview, 7}
WireFields == {{}} \cup {{v} : v \in WireStatuses}
WireItems == [status_code : WireFields, reason : {"x"}, a : WireFields, b : {"y"}]

Payload(shape, items) == [shape |-> shape, items |-> items]
Payloads ==
    {Payload("empty", <<>>)}
        \cup {Payload("object", <<item>>) : item \in WireItems}
        \cup {Payload("array", items) : items \in SeqsUpTo(WireItems, MaxItems)}

decodeInt(field) == IF field = {} THEN 0 ELSE CHOOSE v \in field : TRUE

\* AIResult.UnmarshalJSON: the full field names when they give a status
\* other than 0, else the compact letters when they do, else an error.
UnmarshalJSON(item) ==
    IF decodeInt(item.status_code) # 0
    THEN [err |-> "",
          value |-> [ZeroAIResult EXCEPT !.StatusCode = decodeInt(item.status_code),
                                         !.Reason = item.reason]]
    ELSE IF decodeInt(item.a) # 0
    THEN [err |-> "",
          value |-> [ZeroAIResult EXCEPT !.StatusCode = decodeInt(item.a),
                                         !.Reason = item.b]]
    ELSE [err |-> "models: unsupported AI result format", value |-> ZeroAIResult]

coerceStatus(r) ==
    IF Valid(r.StatusCode) THEN r ELSE [r EXCEPT !.StatusCode = StatusHumanReview]

\* parseResults(content): json.Unmarshal fails on the first item that
\* UnmarshalJSON rejects, and then nothing is returned.
parseResults(content) ==
    IF content.shape = "empty"
    THEN [results |-> <<>>, err |-> "ai: empty result payload"]
    ELSE IF \E i \in DOMAIN content.items : UnmarshalJSON(content.items[i]).err # ""
    THEN [results |-> <<>>, err |-> "models: unsupported AI result format"]
    ELSE [results |-> [i \in DOMAIN content.items |->
                          coerceStatus(UnmarshalJSON(content.items[i]).value)],
          err |-> ""]

NoParse == [op |-> "none", ret |-> [results |-> <<>>, err |-> ""]]

\* prev holds the content the analyzer answered.
InitParse ==
    /\ cfg \in {c \in ConfigsBus : c.allCb /\ ~c.cbErr}
    /\ engine = EngineNew
    /\ cache = newNegativeResultCache
    /\ events = [ev \in EventNames |-> <<>>]
    /\ processed = [code \in 0..6 |-> 0]
    /\ storage = {}
    /\ pending = EmptyBag
    /\ now = 0
    /\ calls = 0
    /\ last = NoParse
    /\ prev \in Payloads
    /\ mu = NoLocks
    /\ tasks = NoTasks

CallParseResults ==
    /\ last = NoParse
    /\ last' = [op |-> "parseResults", ret |-> parseResults(prev)]
    /\ UNCHANGED <<cfg, engine, cache, events, processed, storage, pending, now, calls, prev, mu, tasks>>

SpecParse == InitParse /\ [][CallParseResults]_vars

\* The status an item carries on the wire, in either shape.
WireStatus(item) ==
    IF item.status_code # {} THEN decodeInt(item.status_code) ELSE decodeInt(item.a)

\* C34: every content whose items carry a status, in the single-object and in
\* the array shape, is parsed without error, and each returned item has the
\* status of its item when that is in 1..6 and HumanReview otherwise.
C34_InvalidStatusBecomesHumanReview ==
    (/\ last.op = "parseResults"
     /\ prev.shape # "empty"
     /\ \A i \in DOMAIN prev.items :
           prev.items[i].status_code # {} \/ prev.items[i].a # {})
    => /\ last.ret.err = ""
       /\ Len(last.ret.results) = Len(prev.items)
       /\ \A i \in DOMAIN prev.items :
             last.ret.results[i].StatusCode =
                 IF Valid(WireStatus(prev.items[i]))
                 THEN WireStatus(prev.items[i])
                 ELSE StatusHumanReview

\* ---------------------------------------------------------------------------
\* The adapter's buildChatCompletionsURL. A URL is what url.Parse makes of
\* it: the part before the path (scheme and host) and the path, kept as the
\* sequence of its segments, each standing for "/" followed by the segment, so
\* that <<"v1", "">> is the path "/v1/" and <<>> the empty path. parses is
\* FALSE for a base that url.Parse rejects (an invalid escape in the host).
\* ---------------------------------------------------------------------------
MaxSegments == 3

URL(host, path, parses) == [host |-> host, path |-> path, parses |-> parses]
EmptyBase == URL("", <<>>, TRUE)
DefaultEndpoint == URL("https://api.deepseek.com", <<"chat", "completions">>, TRUE)

Segments == {"", "v1", "chat", "completions", "custom"}
Bases ==
    {EmptyBase}
        \cup {URL(h[1], path, h[2]) :
                 h \in {<<"https://h", TRUE>>, <<"https://%zz", FALSE>>},
                 path \in SeqsUpTo(Segments, MaxSegments)}

\* strings.TrimRight(path, "/")
RECURSIVE TrimSlashes(_)
TrimSlashes(path) ==
    IF path # <<>> /\ path[Len(path)] = ""
    THEN TrimSlashes(SubSeq(path, 1, Len(path) - 1))
    ELSE path

buildChatCompletionsURL(base) ==
    IF base = EmptyBase THEN DefaultEndpoint
    ELSE IF ~base.parses
    THEN [base EXCEPT !.path = TrimSlashes(@) \o <<"chat", "completions">>]
    ELSE LET path == TrimSlashes(base.path)
         IN  IF path = <<>> THEN [base EXCEPT !.path = <<"chat", "completions">>]
             ELSE IF path = <<"v1">>
             THEN [base EXCEPT !.path = <<"v1", "chat", "completions">>]
             ELSE IF path \in {<<"chat", "completions">>, <<"v1", "chat", "completions">>}
             THEN [base EXCEPT !.path = path]
             ELSE [base EXCEPT !.path = path \o <<"chat", "completions">>]

NoBuild == [op |-> "none", ret |-> EmptyBase]

\* prev holds the base URL given to the adapter.
InitURL ==
    /\ cfg \in {c \in ConfigsBus : c.allCb /\ ~c.cbErr /\ c.storage}
    /\ engine = EngineNew
    /\ cache = newNegativeResultCache
    /\ events = [ev \in EventNames |-> <<>>]
    /\ processed = [code \in 0..6 |-> 0]
    /\ storage = {}
    /\ pending = EmptyBag
    /\ now = 0
    /\ calls = 0
    /\ last = NoBuild
    /\ prev \in Bases
    /\ mu = NoLocks
    /\ tasks = NoTasks

\* The endpoint of the base.
CallBuild ==
    /\ last.op = "none"
    /\ last' = [op |-> "build", ret |-> buildChatCompletionsURL(prev)]
    /\ UNCHANGED <<cfg, engine, cache, events, processed, storage, pending, now, calls, prev, mu, tasks>>

\* The endpoint of the endpoint.
CallBuildAgain ==
    /\ last.op = "build"
    /\ last' = [op |-> "again", ret |-> buildChatCompletionsURL(last.ret)]
    /\ UNCHANGED <<cfg, engine, cache, events, processed, storage, pending, now, calls, prev, mu, tasks>>

NextURL == CallBuild \/ CallBuildAgain

SpecURL == InitURL /\ [][NextURL]_vars

EndsIn(path, suffix) ==
    Len(path) >= Len(suffix)
        /\ SubSeq(path, Len(path) - Len(suffix) + 1, Len(path)) = suffix

\* C35: the endpoint of a base that parses is the default for the empty
\* base, the base itself (less trailing slashes) when its path ends in
\* /chat/completions, and the base followed by /chat/completions otherwise,
\* a base ending in /v1 included; the endpoint of an endpoint is that
\* endpoint.
C35_EndpointIsIdempotent ==
    /\ (last.op = "build" /\ prev.parses) =>
          LET path == TrimSlashes(prev.path)
          IN  last.ret =
                  IF prev = EmptyBase THEN DefaultEndpoint
                  ELSE IF EndsIn(path, <<"chat", "completions">>)
                  THEN [prev EXCEPT !.path = path]
                  ELSE [prev EXCEPT !.path = path \o <<"chat", "completions">>]
    /\ (last.op = "again" /\ prev.parses) =>
          last.ret = buildChatCompletionsURL(prev)

\* ---------------------------------------------------------------------------
\* Successive ProcessBatchWithOptions calls of one caller who answers an
\* analyzer failure by calling again with the same batch. The Core has
\* synchronized its tokens, and every event has the handlers h1 and h2.
\* prev keeps of the call before: its batch, its error and the indices it
\* decided without the analyzer.
\* ---------------------------------------------------------------------------
MaxAttempts == 3

\* Batches of one or two messages with different ids.
AttemptBatches ==
    {b \in SeqsUpTo(Messages, MaxBatch) :
        Len(b) > 0 /\ \A i, j \in DOMAIN b : i # j => b[i].ID # b[j].ID}

\* The analyzer fails, or answers every message it was sent, in order.
AttemptResponses(messages) ==
    {r \in Responses(messages) :
        r.err \/ (/\ Len(r.results) = Len(messages)
                  /\ \A k \in DOMAIN messages : r.results[k].MessageID = messages[k].ID)}

\* The input indices decided during the preparation pass.
DecidedEarly(obs) == {i \in DOMAIN obs.messages : i \notin Range(obs.queued)}

NoAttempt == [called |-> FALSE, messages |-> <<>>, skip |-> FALSE, err |-> "", decided |-> {}]

AttemptSummary(obs) ==
    [called |-> obs.called, messages |-> obs.messages, skip |-> obs.skip, err |-> obs.err,
     decided |-> DecidedEarly(obs)]

InitAttempts ==
    /\ cfg \in {c \in Configs : c.batch}
    /\ engine = ReplaceAll(<<<<"B", "a", "d">>>>)
    /\ cache = newNegativeResultCache
    /\ events = [ev \in EventNames |-> <<"h1", "h2">>]
    /\ processed = [code \in 0..6 |-> 0]
    /\ storage = StoredTokens
    /\ pending = EmptyBag
    /\ now = 0
    /\ calls = 0
    /\ last = NoCall
    /\ prev = NoAttempt
    /\ mu = NoLocks
    /\ tasks = NoTasks

\* Core.ProcessBatchWithOptions, called again with the same arguments when
\* the call before failed at the analyzer.
Attempt ==
    /\ calls < MaxAttempts
    /\ \E messages \in IF last.err = "ai" THEN {last.messages} ELSE AttemptBatches,
          skip \in IF last.err = "ai" THEN {last.skip} ELSE BOOLEAN :
       \E ord \in Orderings(IF skip THEN {} ELSE
                     UNION {FindTriggers(engine, Truncate(messages[i].Data)) :
                               i \in DOMAIN messages}) :
       \E prep \in {Prepare(messages, skip, ord, now)} :
       \E resp \in AttemptResponses([k \in DOMAIN prep.toAnalyze |->
                                        prep.toAnalyze[k].message]) :
       \E r \in {Finish(prep, resp, now)} :
          /\ last' = Observation(messages, skip, r, now)
          /\ cache' = r.acc.cs.cache
          /\ engine' = r.acc.cs.engine
          /\ processed' = r.acc.cs.processed
          /\ pending' = r.acc.cs.pending
    /\ calls' = calls + 1
    /\ prev' = AttemptSummary(last)
    /\ UNCHANGED <<cfg, events, storage, now, mu, tasks>>

SpecAttempts == InitAttempts /\ [][Attempt]_vars

RECURSIVE TotalFrom(_, _)
TotalFrom(counters, code) ==
    IF code > 6 THEN 0 ELSE counters[code] + TotalFrom(counters, code + 1)

\* The number of decisions counted in the metrics.
Total(counters) == TotalFrom(counters, 0)

\* The message ids of the given input indices, in input order.
IDsOf(messages, indices) ==
    LET chosen == SelectSeq([i \in DOMAIN messages |-> i], LAMBDA i : i \in indices)
    IN  [k \in DOMAIN chosen |-> messages[chosen[k]].ID]

\* The message ids the handler h1, the status callbacks and OnProcessed were
\* called with, in the order of the calls.
SeenByHandler(trace) ==
    LET calls1 == SelectSeq(trace, LAMBDA c : c.kind = "handler" /\ c.handler = "h1")
    IN  [k \in DOMAIN calls1 |-> calls1[k].arg.MessageID]

SeenByCallbacks(trace) ==
    LET calls1 == SelectSeq(trace, LAMBDA c : c.kind = "callback")
    IN  [k \in DOMAIN calls1 |-> calls1[k].arg.Message.ID]

SeenByProcessed(trace) ==
    LET calls1 == SelectSeq(trace, LAMBDA c : c.kind = "processed")
    IN  [k \in DOMAIN calls1 |-> calls1[k].arg.Message.ID]

\* C36: a call that fails at the analyzer returns no violation, yet it has
\* counted each decision of its preparation pass once and dispatched it to
\* the callbacks and to the handlers; the call that retries the batch decides
\* the same inputs in its preparation pass and counts and dispatches them
\* once more.
C36_FailedBatchHasDispatched ==
    [][calls' = calls + 1 =>
          /\ last'.err = "ai" =>
                /\ last'.out = <<>>
                /\ Total(processed') = Total(processed) + Cardinality(DecidedEarly(last'))
                /\ SeenByHandler(last'.trace) = IDsOf(last'.messages, DecidedEarly(last'))
                /\ SeenByCallbacks(last'.trace) = IDsOf(last'.messages, DecidedEarly(last'))
                /\ cfg.allCb =>
                      SeenByProcessed(last'.trace) = IDsOf(last'.messages, DecidedEarly(last'))
          /\ last.err = "ai" =>
                /\ last'.messages = last.messages /\ last'.skip = last.skip
                /\ DecidedEarly(last') = DecidedEarly(last)
                /\ Total(processed') >= Total(processed) + Cardinality(DecidedEarly(last))
                /\ SubSeq(SeenByHandler(last'.trace), 1, Cardinality(DecidedEarly(last)))
                      = SeenByHandler(last.trace)]_vars

\* A batch failed at the analyzer twice in a row; each time the cache hit of
\* it was counted and dispatched.
C36_Witness ==
    /\ last.err = "ai"
    /\ prev.err = "ai"
    /\ last.hits # {}
    /\ prev.decided = DecidedEarly(last)
    /\ Len(SeenByHandler(last.trace)) = Cardinality(DecidedEarly(last))
    /\ Total(processed) >= 3

\* The message ids in two groups: first the inputs decided in the preparation
\* pass, then the inputs sent to the analyzer, each group in input order.
RecordingOrder(obs) ==
    IDsOf(obs.messages, DecidedEarly(obs))
        \o IDsOf(obs.messages, DOMAIN obs.messages \ DecidedEarly(obs))

\* C38: in a call that succeeded, the callbacks and the handlers have seen
\* first the messages decided without the analyzer, in input order, and then
\* the analyzed messages, in input order; slot i of the returned slice holds
\* the decision on input message i.
C38_DispatchOrder ==
    (last.called /\ last.err = "" /\ Len(last.messages) > 0) =>
        /\ SeenByHandler(last.trace) = RecordingOrder(last)
        /\ SeenByCallbacks(last.trace) = RecordingOrder(last)
        /\ cfg.allCb => SeenByProcessed(last.trace) = RecordingOrder(last)
        /\ \A k \in DOMAIN last.queued :
              k > 1 => last.queued[k - 1] < last.queued[k]
        /\ Len(last.out) = Len(last.messages)
        /\ \A i \in DOMAIN last.messages :
              /\ last.out[i].Message.ID = last.messages[i].ID
              /\ last.out[i].Message.Data = Truncate(last.messages[i].Data)

\* A call has succeeded whose first message was analyzed and whose second
\* message was decided without the analyzer: the handlers saw the second
\* message first, and the returned slice has the first message first.
C38_Witness ==
    /\ last.called /\ last.err = ""
    /\ last.queued = <<1>>
    /\ Len(last.messages) = 2
    /\ SeenByHandler(last.trace) = <<last.messages[2].ID, last.messages[1].ID>>
    /\ last.out[1].Message.ID = last.messages[1].ID
    /\ last.messages[1].ID # last.messages[2].ID

\* ---------------------------------------------------------------------------
\* Auto-learn against SyncOnce, step by step. A learner is a ProcessBatch
\* call at the point where learn has normalized a token of its result: it
\* calls Engine.AddToken and then, when that returned true, starts the
\* goroutine that writes the token to the storage (pending holds the writes
\* not yet landed). The syncer runs SyncOnce twice, each a GetTokens followed
\* by a ReplaceAll of what GetTokens returned. prev keeps the tokens the
\* engine held at the start.
\* ---------------------------------------------------------------------------
NumLearners == 2

LearnerTask == Task(<<Op("AddToken", tOther), Op("go", tOther)>>)
SyncerTask == Task(<<Op("SyncOnce", <<>>), Op("SyncOnce", <<>>)>>)

InitRace ==
    /\ cfg \in {c \in ConfigsBus : c.allCb /\ ~c.cbErr}
    /\ \E known \in BOOLEAN :
          /\ storage = IF known THEN StoredTokens \cup {tOther} ELSE StoredTokens
          /\ \E o \in Orderings(storage) : engine = ReplaceAll(o)
    /\ cache = newNegativeResultCache
    /\ events = [ev \in EventNames |-> <<>>]
    /\ processed = [code \in 0..6 |-> 0]
    /\ pending = EmptyBag
    /\ now = 0
    /\ calls = 0
    /\ last = NoOp
    /\ prev = engine
    /\ mu = NoLocks
    /\ \E n \in 1..NumLearners, syncing \in BOOLEAN :
          tasks = [w \in 1..n |-> LearnerTask] \o (IF syncing THEN <<SyncerTask>> ELSE <<>>)

\* learn after Engine.AddToken: `continue` when it returned false, else
\* `go func(tok)`.
LearnSpawn ==
    /\ \E w \in DOMAIN tasks :
          /\ tasks[w].pc = "idle" /\ tasks[w].prog # <<>>
          /\ Current(w).op = "go"
          /\ \E added \in {tasks[w].rets[Len(tasks[w].rets)].ret} :
                /\ pending' = IF added THEN pending (+) SetToBag({Current(w).arg})
                              ELSE pending
                /\ tasks' = [tasks EXCEPT ![w] = Returned(w, added)]
    /\ UNCHANGED <<cfg, engine, cache, events, processed, storage, now, calls, last, prev, mu>>

\* The goroutine started by learn: storage.AddToken(ctx, tok) lands, or
\* fails and is logged.
PersistLearned ==
    /\ \E tok \in BagToSet(pending) :
          /\ pending' = pending (-) SetToBag({tok})
          /\ \/ storage' = storage \cup {tok}
             \/ cfg.writeFails /\ UNCHANGED storage
    /\ UNCHANGED <<cfg, engine, cache, events, processed, now, calls, last, prev, mu, tasks>>

\* SyncOnce up to ReplaceAll: storage.GetTokens returns an error, which
\* SyncOnce returns, or the tokens stored at this moment, which it hands to
\* ReplaceAll.
SyncGetTokens ==
    /\ \E w \in DOMAIN tasks :
          /\ tasks[w].pc = "idle" /\ tasks[w].prog # <<>>
          /\ Current(w).op = "SyncOnce"
          /\ \E got \in GetTokens(storage) :
                tasks' = IF got.err # ""
                         THEN [tasks EXCEPT ![w] = Returned(w, got.err)]
                         ELSE [tasks EXCEPT ![w].prog =
                                   <<Op("ReplaceAll", got.tokens)>> \o Tail(@)]
    /\ UNCHANGED <<cfg, engine, cache, events, processed, storage, pending, now, calls,
                   last, prev, mu>>

NextRace ==
    \/ Normalize
    \/ WriteLock
    \/ Lookup
    \/ Mutate
    \/ WriteUnlock
    \/ LearnSpawn
    \/ PersistLearned
    \/ SyncGetTokens
    \/ Build
    \/ Swap

SpecRace == InitRace /\ [][NextRace]_vars

\* The storage holds the token (as the engine would hold it).
Stored(t) == \E x \in storage : normalizeToken(x) = t

\* The normalized tokens of a list.
TokensOf(list) == {normalizeToken(list[i]) : i \in DOMAIN list} \ {<<>>}

\* How often the operation op on the token t has returned true to goroutine w,
\* and to all tasks from w on.
TrueReturns(w, op, t) ==
    Len(SelectSeq(tasks[w].rets, LAMBDA r : r.op = op /\ r.arg = t /\ r.ret))

RECURSIVE TrueReturnsFrom(_, _, _)
TrueReturnsFrom(w, op, t) ==
    IF w > Len(tasks) THEN 0
    ELSE TrueReturns(w, op, t) + TrueReturnsFrom(w + 1, op, t)

\* A ReplaceAll has put its list in place.
Swapped ==
    \E w \in DOMAIN tasks :
        \/ \E k \in DOMAIN tasks[w].rets : tasks[w].rets[k].op = "ReplaceAll"
        \/ tasks[w].pc = "unlock" /\ Current(w).op = "ReplaceAll"

C39_OneWritePerInsertion ==
    /\ \A w \in DOMAIN tasks :
          (Len(tasks[w].rets) >= 2 /\ tasks[w].rets[1].op = "AddToken") =>
              tasks[w].rets[2].ret = tasks[w].rets[1].ret
    /\ TrueReturnsFrom(1, "go", tOther) <= TrueReturnsFrom(1, "AddToken", tOther)
    /\ ~Swapped =>
          /\ TrueReturnsFrom(1, "AddToken", tOther)
                + Cardinality({w \in DOMAIN tasks :
                                  /\ tasks[w].pc \in {"mutate", "unlock"}
                                  /\ Current(w).op = "AddToken" /\ tasks[w].ok})
                <= (IF tOther \in prev.tokens THEN 0 ELSE 1)
          /\ (\A w \in DOMAIN tasks :
                 tasks[w].prog = <<>> \/ Current(w).op = "SyncOnce") =>
                /\ TrueReturnsFrom(1, "AddToken", tOther)
                      = (IF tOther \in prev.tokens THEN 0 ELSE 1)
                /\ TrueReturnsFrom(1, "go", tOther)
                      = TrueReturnsFrom(1, "AddToken", tOther)

\* Two learners have raced on the absent token and both are through: one got
\* true and started the one write, the other got false.
C39_Witness ==
    /\ Len(tasks) = 2
    /\ tasks[1].prog = <<>> /\ tasks[2].prog = <<>>
    /\ tasks[1].rets[1].op = "AddToken" /\ tasks[2].rets[1].op = "AddToken"
    /\ tOther \notin prev.tokens
    /\ TrueReturnsFrom(1, "go", tOther) = 1
    /\ ~tasks[1].rets[1].ret /\ tasks[2].rets[1].ret

\* The preparation pass of a ProcessBatch call with skip_trigger_filter =
\* false on one message with the given text, in the present state, for every
\* order in which FindTriggers may list what it found.
PreparedFor(text) ==
    {Prepare(<<[ID |-> 1, DialogID |-> "d1", User |-> 11, Data |-> text]>>, FALSE, ord, now) :
        ord \in Orderings(FindTriggers(engine, Truncate(text)))}

\* C40: a stored token without a space that holds a character other than a
\* letter, a digit or an underscore is returned by FindTriggers for no text,
\* not even for the token itself; a message is sent to the analyzer only if
\* FindTriggers found a token that is a run of word characters or holds a
\* space; and adding such a token raises Count by one like any other token.
C40_UnmatchableToken ==
    /\ [](/\ last.op = "FindTriggers" => \A t \in last.ret : Matchable(t)
          /\ \A t \in engine.tokens :
                ~Matchable(t) =>
                    \A text \in EngineTexts \cup TextsWith(t) :
                        t \notin FindTriggers(engine, text)
          /\ \A text \in EngineTexts :
                \A prep \in PreparedFor(text) :
                    prep.toAnalyze # <<>> =>
                        \E t \in FindTriggers(engine, Truncate(text)) : Matchable(t)
          /\ Count(engine) = Cardinality(engine.tokens))
    /\ [][(/\ last'.op = "AddToken" /\ last'.ret
           /\ ~Matchable(normalizeToken(last'.arg))
           /\ engine' # engine)
              => /\ normalizeToken(last'.arg) \in engine'.tokens
                 /\ Count(engine') = Count(engine) + 1]_vars

\* The engine holds only the token a-b; FindTriggers was asked for the text
\* a-b and found nothing, a message with that text is decided without the
\* analyzer, and Count is 1.
C40_Witness ==
    /\ engine.tokens = {<<"a", "-", "b">>}
    /\ last.op = "FindTriggers"
    /\ last.arg = <<"a", "-", "b">>
    /\ last.ret = {}
    /\ \A prep \in PreparedFor(last.arg) : prep.toAnalyze = <<>> /\ prep.filled[1]
    /\ Count(engine) = 1

====
